---- MODULE Spec2Model ----
(***************************************************************************)
(* caurora: a scanner, a single-pass Pratt compiler that emits 16-bit code *)
(* words into a MemorySlice, and the stack VM that interprets them.        *)
(*                                                                         *)
(* The source text is a sequence of one-character strings; indices into it *)
(* are 0-based as in the Rust code (source[i + 1] is chars().nth(i)).      *)
(* The compiler is the pure function compile; the VM is the state machine: *)
(* one action per opcode handler of VM::interpret.                         *)
(***************************************************************************)
EXTENDS Integers, Sequences, FiniteSets, TLC

\* F applied to the value x: the value is named once, computed before F is
\* applied, and used by F
With(x, F(_)) == CHOOSE r \in {F(v) : v \in {x}} : TRUE

(***************************************************************************)
(* Characters                                                              *)
(***************************************************************************)

\* peek()/peek_next() return '\0' at the end of the source
NUL == "NUL"

\* the printable ASCII characters, in code order from 32 (space) to 126 (~);
\* BACKTICK stands for code 96
Ascii ==
  << " ", "!", "\"", "#", "$", "%", "&", "'", "(", ")", "*", "+", ",", "-", ".", "/",
     "0", "1", "2", "3", "4", "5", "6", "7", "8", "9", ":", ";", "<", "=", ">", "?",
     "@", "A", "B", "C", "D", "E", "F", "G", "H", "I", "J", "K", "L", "M", "N", "O",
     "P", "Q", "R", "S", "T", "U", "V", "W", "X", "Y", "Z", "[", "\\", "]", "^", "_",
     "BACKTICK", "a", "b", "c", "d", "e", "f", "g", "h", "i", "j", "k", "l", "m", "n", "o",
     "p", "q", "r", "s", "t", "u", "v", "w", "x", "y", "z", "{", "|", "}", "~" >>

CharCodeTable ==
  [c \in {Ascii[i] : i \in 1..Len(Ascii)} \cup {NUL, "\t", "\n", "\r"} |->
     CASE c = NUL -> 0
       [] c = "\t" -> 9
       [] c = "\n" -> 10
       [] c = "\r" -> 13
       [] OTHER -> 31 + (CHOOSE i \in 1..Len(Ascii) : Ascii[i] = c)]

\* the code point of a char, by which Rust orders chars
CharCode(c) == CharCodeTable[c]

(***************************************************************************)
(* f64, on the values the programs below compute: exact rationals num/den  *)
(* in lowest terms (den > 0), and den = 0 for +inf (num 1), -inf (num -1)  *)
(* and NaN (num 0).  Rounding and the sign of zero are not modelled.       *)
(***************************************************************************)

Abs(n) == IF n < 0 THEN -n ELSE n

Sign(n) == IF n < 0 THEN -1 ELSE IF n > 0 THEN 1 ELSE 0

RECURSIVE GCD(_, _)
GCD(a, b) == IF b = 0 THEN a ELSE GCD(b, a % b)

F64(n, d) ==
  IF d = 0 THEN [num |-> Sign(n), den |-> 0]
  ELSE LET g == GCD(Abs(n), Abs(d))
       IN  [num |-> (Sign(d) * n) \div g, den |-> Abs(d) \div g]

F64NaN == [num |-> 0, den |-> 0]

f64_is_nan(x) == x.den = 0 /\ x.num = 0

f64_is_inf(x) == x.den = 0 /\ x.num # 0

f64_neg(x) == [num |-> -x.num, den |-> x.den]

f64_add(x, y) ==
  IF f64_is_nan(x) \/ f64_is_nan(y) THEN F64NaN
  ELSE IF f64_is_inf(x) THEN (IF f64_is_inf(y) /\ y.num # x.num THEN F64NaN ELSE x)
  ELSE IF f64_is_inf(y) THEN y
  ELSE F64(x.num * y.den + y.num * x.den, x.den * y.den)

f64_sub(x, y) == f64_add(x, f64_neg(y))

f64_mul(x, y) ==
  IF f64_is_nan(x) \/ f64_is_nan(y) THEN F64NaN
  ELSE IF f64_is_inf(x) \/ f64_is_inf(y)
       THEN [num |-> Sign(x.num) * Sign(y.num), den |-> 0]
  ELSE F64(x.num * y.num, x.den * y.den)

f64_div(x, y) ==
  IF f64_is_nan(x) \/ f64_is_nan(y) THEN F64NaN
  ELSE IF f64_is_inf(x)
       THEN (IF f64_is_inf(y) THEN F64NaN
             ELSE [num |-> x.num * (IF y.num < 0 THEN -1 ELSE 1), den |-> 0])
  ELSE IF f64_is_inf(y) THEN F64(0, 1)
  ELSE IF y.num = 0 THEN [num |-> Sign(x.num), den |-> 0]
  ELSE F64(x.num * y.den, x.den * y.num)

\* f64 == : NaN is equal to nothing
f64_eq(x, y) == ~f64_is_nan(x) /\ ~f64_is_nan(y) /\ x = y

\* f64 < : false when either side is NaN
f64_lt(x, y) ==
  /\ ~f64_is_nan(x) /\ ~f64_is_nan(y)
  /\ x # y
  /\ IF f64_is_inf(x) THEN x.num < 0
     ELSE IF f64_is_inf(y) THEN y.num > 0
     ELSE x.num * y.den < y.num * x.den

\* x as usize: truncates toward zero and saturates (NaN and negatives give 0;
\* +inf gives usize::MAX, for which the largest integer of the checker stands)
f64_as_usize(x) ==
  IF f64_is_nan(x) THEN 0
  ELSE IF f64_is_inf(x) THEN (IF x.num > 0 THEN 2147483647 ELSE 0)
  ELSE IF x.num < 0 THEN 0
  ELSE x.num \div x.den

(***************************************************************************)
(* Value and Object (values.rs)                                            *)
(***************************************************************************)

Number(x) == [t |-> "Number", x |-> x]

Nil == [t |-> "Nil"]

Raw == [t |-> "Raw"]

Bool(b) == [t |-> "Bool", b |-> b]

ObjString(s) == [t |-> "Object", o |-> "String", s |-> s]

ObjFunction(name, address, arity) ==
  [t |-> "Object", o |-> "Function", name |-> name, address |-> address, arity |-> arity]

IsNumber(v) == v.t = "Number"

IsBool(v) == v.t = "Bool"

IsString(v) == v.t = "Object" /\ v.o = "String"

IsFunction(v) == v.t = "Object" /\ v.o = "Function"

\* the order of the variants in the enum declarations, which derive(PartialOrd) uses
ValueVariantIndex(v) ==
  CASE v.t = "Number" -> 0
    [] v.t = "Nil" -> 1
    [] v.t = "Raw" -> 2
    [] v.t = "Bool" -> 3
    [] v.t = "Object" -> 4

ObjectVariantIndex(v) == IF v.o = "String" THEN 0 ELSE 1

\* a variant of ValueEq that compares the variants only
ValueEq_VariantOnly(a, b) == a.t = b.t

\* derive(PartialEq) on Value and Object
ValueEq(a, b) ==
  /\ a.t = b.t
  /\ CASE a.t = "Number" -> f64_eq(a.x, b.x)
       [] a.t = "Bool" -> a.b = b.b
       [] a.t = "Object" ->
            /\ a.o = b.o
            /\ IF a.o = "String" THEN a.s = b.s
               ELSE a.name = b.name /\ a.address = b.address /\ a.arity = b.arity
       [] OTHER -> TRUE

\* str/String ordering: lexicographic by bytes; "Less", "Equal" or "Greater"
RECURSIVE StrCmp(_, _)
StrCmp(s, u) ==
  IF s = <<>> /\ u = <<>> THEN "Equal"
  ELSE IF s = <<>> THEN "Less"
  ELSE IF u = <<>> THEN "Greater"
  ELSE IF CharCode(Head(s)) < CharCode(Head(u)) THEN "Less"
  ELSE IF CharCode(Head(s)) > CharCode(Head(u)) THEN "Greater"
  ELSE StrCmp(Tail(s), Tail(u))

IntCmp(m, n) == IF m < n THEN "Less" ELSE IF m > n THEN "Greater" ELSE "Equal"

\* derive(PartialOrd) on Value and Object: partial_cmp, "None" when incomparable.
\* Different variants compare by their position in the enum.
ValuePartialCmp(a, b) ==
  IF ValueVariantIndex(a) # ValueVariantIndex(b)
  THEN IntCmp(ValueVariantIndex(a), ValueVariantIndex(b))
  ELSE CASE a.t = "Number" ->
              IF f64_lt(a.x, b.x) THEN "Less"
              ELSE IF f64_lt(b.x, a.x) THEN "Greater"
              ELSE IF f64_eq(a.x, b.x) THEN "Equal"
              ELSE "None"
         [] a.t = "Bool" -> IntCmp(IF a.b THEN 1 ELSE 0, IF b.b THEN 1 ELSE 0)
         [] a.t = "Object" ->
              IF ObjectVariantIndex(a) # ObjectVariantIndex(b)
              THEN IntCmp(ObjectVariantIndex(a), ObjectVariantIndex(b))
              ELSE IF a.o = "String" THEN StrCmp(a.s, b.s)
              ELSE IF StrCmp(a.name, b.name) # "Equal" THEN StrCmp(a.name, b.name)
              ELSE IF a.address # b.address THEN IntCmp(a.address, b.address)
              ELSE IntCmp(a.arity, b.arity)
         [] OTHER -> "Equal"

\* a > b and a < b on Values
ValueGt(a, b) == ValuePartialCmp(a, b) = "Greater"

ValueLt(a, b) == ValuePartialCmp(a, b) = "Less"

(***************************************************************************)
(* OpCode (opcodes.rs): repr(u16), numbered in declaration order.          *)
(***************************************************************************)

OpCodes ==
  << "Add", "Subtract", "Multiply", "Divide", "Constant", "Equal", "Greater", "Less",
     "Nil", "True", "False", "Not", "Negate", "Print", "Pop", "SetGlobalVar",
     "GetGlobalVar", "DefineGlobalVar", "SetLocalVar", "GetLocalVar", "Jmp", "JmpTrue",
     "JmpFalse", "Loop", "Panic", "Return" >>

\* The compiler and the VM use four more opcodes that the enum of opcodes.rs does
\* not list; they are numbered after the listed ones.
OpCodesUnlisted == << "Eof", "Call", "PopStoreTmp", "SetSP" >>

AllOpCodes == OpCodes \o OpCodesUnlisted

\* OpCode::repr
OpCodeRepr(oc) == (CHOOSE i \in 1..Len(AllOpCodes) : AllOpCodes[i] = oc) - 1

AsU16(n) == n % 65536

(***************************************************************************)
(* MemorySlice (memoryslice.rs)                                            *)
(***************************************************************************)

MemorySlice_new == [memory |-> <<>>, constants |-> <<>>, lines |-> <<>>]

push(m, oc) == [m EXCEPT !.memory = Append(@, OpCodeRepr(oc))]

push_raw(m, w) == [m EXCEPT !.memory = Append(@, w)]

line_end(m) ==
  LET linelocation == Len(m.memory) - 1
  IN  IF linelocation < 0 THEN m
      ELSE [m EXCEPT !.lines = Append(@, AsU16(linelocation))]

\* Option<u16>: some = FALSE is None
read_at_ip(m, index) ==
  IF index < Len(m.memory) THEN [some |-> TRUE, v |-> m.memory[index + 1]]
  ELSE [some |-> FALSE, v |-> 0]

replace_at_location(m, index, v) == [m EXCEPT !.memory[index + 1] = v]

get_constant(m, index) ==
  IF index < Len(m.constants) THEN [some |-> TRUE, v |-> m.constants[index + 1]]
  ELSE [some |-> FALSE, v |-> Nil]

get_memory_size(m) == Len(m.memory)

\* a variant of ConstantIndex that finds no value
ConstantIndex_NoScan(constants, v) == Len(constants)

\* the scan of push_constant: the first index holding a value equal to v
ConstantIndex(constants, v) ==
  LET hits == {i \in 1..Len(constants) : ValueEq(constants[i], v)}
  IN  IF hits = {} THEN Len(constants)
      ELSE (CHOOSE i \in hits : \A j \in hits : i <= j) - 1

\* a variant of push_constant that puts a new value at the front of the pool
push_constant_AtFront(m, op, v) ==
  LET index == ConstantIndex(m.constants, v)
      found == index < Len(m.constants)
      m1 == IF found THEN m ELSE [m EXCEPT !.constants = <<v>> \o @]
      m2 == push(m1, op)
  IN  [m2 EXCEPT !.memory = Append(@, IF found THEN AsU16(index) ELSE 0)]

push_constant(m, op, v) ==
  LET index == ConstantIndex(m.constants, v)
      found == index < Len(m.constants)
      m1 == IF found THEN m ELSE [m EXCEPT !.constants = Append(@, v)]
      m2 == push(m1, op)
  IN  [m2 EXCEPT !.memory = Append(@, AsU16(index))]

(***************************************************************************)
(* Token and Scanner (token.rs, scanner.rs)                                *)
(***************************************************************************)

Token(tokentype, start, length, line) ==
  [tokentype |-> tokentype, start |-> start, length |-> length, line |-> line]

\* source.chars().skip(start).take(length).collect()
Slice(source, start, length) ==
  LET from == IF start < Len(source) THEN start ELSE Len(source)
      to == IF start + length < Len(source) THEN start + length ELSE Len(source)
  IN  SubSeq(source, from + 1, to)

\* the keywords table built by Scanner::new
Keywords ==
  ( <<"a", "n", "d">> :> "And" ) @@
  ( <<"c", "l", "a", "s", "s">> :> "Class" ) @@
  ( <<"e", "l", "s", "e">> :> "Else" ) @@
  ( <<"f", "a", "l", "s", "e">> :> "False" ) @@
  ( <<"f", "o", "r">> :> "For" ) @@
  ( <<"f", "u", "n", "c", "t", "i", "o", "n">> :> "Fun" ) @@
  ( <<"i", "f">> :> "If" ) @@
  ( <<"n", "i", "l">> :> "Nil" ) @@
  ( <<"o", "r">> :> "Or" ) @@
  ( <<"p", "r", "i", "n", "t">> :> "Print" ) @@
  ( <<"r", "e", "t", "u", "r", "n">> :> "Return" ) @@
  ( <<"s", "u", "p", "e", "r">> :> "Super" ) @@
  ( <<"t", "h", "i", "s">> :> "This" ) @@
  ( <<"t", "r", "u", "e">> :> "True" ) @@
  ( <<"v", "a", "r">> :> "Var" ) @@
  ( <<"w", "h", "i", "l", "e">> :> "While" )

Scanner_new(src) ==
  [source |-> src, start |-> 0, current |-> 0, line |-> 0, error_msg |-> ""]

make_token(sc, t) == Token(t, sc.start, sc.current - sc.start, sc.line)

at_end(sc) == sc.current >= Len(sc.source)

\* Scanner::advance: the scanner after the call; the char returned is CharAt(sc)
CharAt(sc) == sc.source[sc.current + 1]

Scanner_advance(sc) == [sc EXCEPT !.current = @ + 1]

\* token_match: [sc, r]
token_match(sc, expected) ==
  IF at_end(sc) THEN [sc |-> sc, r |-> FALSE]
  ELSE IF CharAt(sc) # expected THEN [sc |-> sc, r |-> FALSE]
  ELSE [sc |-> [sc EXCEPT !.current = @ + 1], r |-> TRUE]

peek(sc) == IF at_end(sc) THEN NUL ELSE CharAt(sc)

peek_next(sc) ==
  IF sc.current + 1 >= Len(sc.source) THEN NUL ELSE sc.source[sc.current + 2]

is_digit(c) == CharCode(c) >= CharCode("0") /\ CharCode(c) <= CharCode("9")

is_alpha(c) ==
  \/ (CharCode(c) >= CharCode("a") /\ CharCode(c) <= CharCode("z"))
  \/ (CharCode(c) >= CharCode("A") /\ CharCode(c) <= CharCode("Z"))
  \/ c = "_"

is_alphanumeric(c) == is_alpha(c) \/ is_digit(c)

\* while self.is_digit(self.peek()) { self.advance(); }
RECURSIVE SkipDigits(_)
SkipDigits(sc) == IF is_digit(peek(sc)) THEN SkipDigits(Scanner_advance(sc)) ELSE sc

\* Scanner::number: [sc, tok]
\* the fractional part of Scanner::number
SkipFraction(sc) ==
  IF peek(sc) = "." /\ is_digit(peek_next(sc)) THEN SkipDigits(Scanner_advance(sc)) ELSE sc

\* a token of type t ending at the current position: [sc, tok]
Scanned(sc, t) == [sc |-> sc, tok |-> make_token(sc, t)]

Scanner_number(sc) == Scanned(SkipFraction(SkipDigits(sc)), "Number")

RECURSIVE SkipAlphanumeric(_)
SkipAlphanumeric(sc) ==
  IF is_alphanumeric(peek(sc)) THEN SkipAlphanumeric(Scanner_advance(sc)) ELSE sc

\* Scanner::identifier: [sc, tok]
\* the token type of the lexeme text: its keyword, or Identifier
IdentifierType(text) == IF text \in DOMAIN Keywords THEN Keywords[text] ELSE "Identifier"

Lexeme(sc) == Slice(sc.source, sc.start, sc.current - sc.start)

Scanner_identifier(sc) ==
  With(SkipAlphanumeric(sc), LAMBDA sc1: Scanned(sc1, IdentifierType(Lexeme(sc1))))

\* the loop of read_string: up to the closing quote or the end, counting lines
RECURSIVE SkipString(_)
SkipString(sc) ==
  IF peek(sc) # "\"" /\ ~at_end(sc)
  THEN SkipString(Scanner_advance(
         IF peek(sc) = "\n" THEN [sc EXCEPT !.line = @ + 1] ELSE sc))
  ELSE sc

\* read_string: [sc, tok]
read_string(sc) ==
  With(SkipString(sc), LAMBDA sc1:
    IF at_end(sc1) THEN Scanned([sc1 EXCEPT !.error_msg = "Unterminated string"], "Error")
    ELSE Scanned(Scanner_advance(sc1), "String"))

\* the loop of the comment branch: up to, not including, the newline
RECURSIVE SkipComment(_)
SkipComment(sc) ==
  IF peek(sc) # "\n" /\ ~at_end(sc) THEN SkipComment(Scanner_advance(sc)) ELSE sc

\* a char followed by an optional second one: [sc, tok]
TwoChar(sc, expected, yes, no) ==
  With(token_match(sc, expected), LAMBDA m: Scanned(m.sc, IF m.r THEN yes ELSE no))

SingleCharTokens ==
  ( "(" :> "LeftParen" ) @@ ( ")" :> "RightParen" ) @@ ( "{" :> "LeftBrace" ) @@
  ( "}" :> "RightBrace" ) @@ ( "," :> "Comma" ) @@ ( "." :> "Dot" ) @@
  ( "-" :> "Minus" ) @@ ( "+" :> "Plus" ) @@ ( ";" :> "SemiColon" ) @@
  ( "*" :> "Star" )

\* scan_token with no comment branch: every / is a Slash
SlashOrComment_AlwaysSlash(sc) == Scanned(sc, "Slash")

\* the comment branch of scan_token, and Slash
SlashOrComment(sc) ==
  With(token_match(sc, "/"), LAMBDA m:
    IF m.r THEN Scanned(SkipComment(m.sc), "WhiteSpace") ELSE Scanned(m.sc, "Slash"))

\* the match of scan_token on the char c just consumed: [sc, tok]
ScanChar(sc, c) ==
  CASE c \in DOMAIN SingleCharTokens -> Scanned(sc, SingleCharTokens[c])
    [] c = "!" -> TwoChar(sc, "=", "BangEqual", "Bang")
    [] c = "=" -> TwoChar(sc, "=", "EqualEqual", "Equal")
    [] c = "<" -> TwoChar(sc, "=", "LessEqual", "Less")
    [] c = ">" -> TwoChar(sc, "=", "GreaterEqual", "Greater")
    [] c = "/" -> SlashOrComment(sc)
    [] c \in {" ", "\r", "\t"} -> Scanned(sc, "WhiteSpace")
    [] c = "\n" -> Scanned([sc EXCEPT !.line = @ + 1], "NewLine")
    [] c = "\"" -> read_string(sc)
    [] OTHER ->
         IF is_digit(c) THEN Scanner_number(sc)
         ELSE IF is_alpha(c) THEN Scanner_identifier(sc)
         ELSE Scanned([sc EXCEPT !.error_msg = "unexpected character"], "Error")

\* scan_token without its first statement, self.start = self.current
scan_token_KeepStart(sc) ==
  IF at_end(sc) THEN Scanned(sc, "Eof")
  ELSE ScanChar([sc EXCEPT !.current = @ + 1], CharAt(sc))

\* scan_token: [sc, tok]
scan_token(sc) ==
  IF at_end(sc) THEN Scanned([sc EXCEPT !.start = sc.current], "Eof")
  ELSE ScanChar([sc EXCEPT !.start = sc.current, !.current = @ + 1], CharAt(sc))

(***************************************************************************)
(* Compiler (compiler.rs).  Every method is an operator from the compiler  *)
(* state c to the compiler state after the call (with the returned value   *)
(* in a record [c, r] where the method returns one).  status is "ok",      *)
(* "panic" once a panic!/unwrap has fired, and "hang" when the method      *)
(* loops forever; a method called in a state that is not "ok" does         *)
(* nothing.  For the properties below, stmts records the code region of    *)
(* each statement, logicals the code regions of the right operands of      *)
(* and/or, funcs the functions declared and returns the number of return   *)
(* statements compiled.                                                    *)
(***************************************************************************)

\* Precedence::repr
Precedence(name) ==
  CASE name = "None" -> 0
    [] name = "Assignment" -> 1
    [] name = "Or" -> 2
    [] name = "And" -> 3
    [] name = "Equality" -> 4
    [] name = "Comparison" -> 5
    [] name = "Term" -> 6
    [] name = "Factor" -> 7
    [] name = "Unary" -> 8
    [] name = "Call" -> 9
    [] name = "Primary" -> 10

Local(name, depth, func_depth) ==
  [name |-> name, depth |-> depth, func_depth |-> func_depth]

\* overflow_checks: whether the build panics on integer overflow (debug) or wraps
Compiler_new(source, memory, scanner, overflow_checks) ==
  [ current |-> Token("Nil", 0, 0, 0),
    previous |-> Token("Nil", 0, 0, 0),
    has_error |-> FALSE,
    source |-> source,
    memory |-> memory,
    scanner |-> scanner,
    locals |-> <<>>,
    scope_depth |-> 0,
    func_returns |-> 0,
    overflow_checks |-> overflow_checks,
    status |-> "ok",
    fatal |-> "none",
    reported |-> FALSE,
    stmts |-> {},
    logicals |-> {},
    funcs |-> {},
    returns |-> 0,
    jumps |-> {},
    patched |-> {},
    loops |-> {},
    call_sites |-> {},
    callees |-> {},
    frames |-> <<>>,
    return_sites |-> {},
    targets |-> {},
    opcodes |-> {},
    idents |-> {},
    scopes |-> {},
    scope_log |-> {} ]

IsOk(c) == c.status = "ok"

\* the rest of a method, run only when nothing before it has panicked
Then(c, F(_)) == IF c.status = "ok" THEN F(c) ELSE c

Panicked(c) == [c EXCEPT !.status = "panic"]

\* panic!("Invalid assignment ...") of parse_precedence
InvalidAssignment(c) == [Panicked(c) EXCEPT !.fatal = "Invalid assignment"]

Hung(c) == [c EXCEPT !.status = "hang"]

\* errorlogger::log_error reports the message and returns
log_error(reported) == TRUE

Reported(c) == [c EXCEPT !.reported = log_error(@)]

\* self.memory.push(oc)
\* opcodes records the offsets of the words emitted as opcodes
Emit(c, oc) ==
  IF c.status = "ok"
  THEN [c EXCEPT !.memory = push(@, oc), !.opcodes = @ \cup {Len(c.memory.memory)}]
  ELSE c

\* self.memory.push(oc) of a word that stands for an operand
EmitPlaceholder(c, oc) == IF c.status = "ok" THEN [c EXCEPT !.memory = push(@, oc)] ELSE c

\* self.memory.push_raw(w as u16)
EmitRaw(c, w) == IF c.status = "ok" THEN [c EXCEPT !.memory = push_raw(@, AsU16(w))] ELSE c

\* self.memory.push_constant(oc, v)
EmitConstant(c, oc, v) ==
  IF c.status = "ok"
  THEN [c EXCEPT !.memory = push_constant(@, oc, v),
                 !.opcodes = @ \cup {Len(c.memory.memory)}]
  ELSE c

Size(c) == get_memory_size(c.memory)

\* self.func_returns += d
AddFuncReturns(c, d) == IF c.status = "ok" THEN [c EXCEPT !.func_returns = @ + d] ELSE c

RECURSIVE advance_loop(_)
advance_loop(c) ==
  With(scan_token(c.scanner), LAMBDA r:
    CASE r.tok.tokentype = "NewLine" ->
           advance_loop([c EXCEPT !.scanner = r.sc, !.current = r.tok,
                                  !.memory = line_end(@)])
      [] r.tok.tokentype = "WhiteSpace" ->
           advance_loop([c EXCEPT !.scanner = r.sc, !.current = r.tok])
      [] r.tok.tokentype = "Error" ->
           advance_loop(Reported([c EXCEPT !.scanner = r.sc, !.current = r.tok,
                                           !.has_error = TRUE]))
      [] OTHER -> [c EXCEPT !.scanner = r.sc, !.current = r.tok])

advance(c) ==
  IF c.status # "ok" THEN c ELSE advance_loop([c EXCEPT !.previous = c.current])

check(c, tokentype) == c.current.tokentype = tokentype

\* match_token: the state after the call; it returns check(c, tokentype)
match_token(c, tokentype) ==
  IF c.status # "ok" THEN c ELSE IF ~check(c, tokentype) THEN c ELSE advance(c)

consume(c, tokentype) ==
  IF c.status # "ok" THEN c
  ELSE IF c.current.tokentype = tokentype THEN advance(c)
  ELSE Panicked(c)

parse_identifier(c, token) == Slice(c.source, token.start, token.length)

\* a variant of get_rule in which every binary operator has the precedence Term
get_rule_Flat(op) ==
  CASE op \in {"Minus", "Plus", "Slash", "Star", "BangEqual", "EqualEqual", "Greater",
               "GreaterEqual", "Less", "LessEqual"} -> Precedence("Term")
    [] op = "And" -> Precedence("And")
    [] op = "Or" -> Precedence("Or")
    [] op = "LeftParen" -> Precedence("Call")
    [] OTHER -> Precedence("None")

get_rule(op) ==
  CASE op \in {"Minus", "Plus"} -> Precedence("Term")
    [] op \in {"Slash", "Star"} -> Precedence("Factor")
    [] op \in {"BangEqual", "EqualEqual"} -> Precedence("Equality")
    [] op \in {"Greater", "GreaterEqual", "Less", "LessEqual"} -> Precedence("Comparison")
    [] op = "And" -> Precedence("And")
    [] op = "Or" -> Precedence("Or")
    [] op = "LeftParen" -> Precedence("Call")
    [] OTHER -> Precedence("None")

DigitValue(ch) == CharCode(ch) - CharCode("0")

\* the digits of a number lexeme as one integer, the '.' skipped
RECURSIVE DigitsValue(_, _)
DigitsValue(chars, acc) ==
  IF chars = <<>> THEN acc
  ELSE IF Head(chars) = "." THEN DigitsValue(Tail(chars), acc)
  ELSE DigitsValue(Tail(chars), 10 * acc + DigitValue(Head(chars)))

RECURSIVE Pow10(_)
Pow10(k) == IF k = 0 THEN 1 ELSE 10 * Pow10(k - 1)

\* str::parse::<f64> on the lexeme of a Number token: digits ('.' digits)?
ParseF64(chars) ==
  LET dots == {i \in 1..Len(chars) : chars[i] = "."}
      frac == IF dots = {} THEN 0 ELSE Len(chars) - (CHOOSE i \in dots : TRUE)
  IN  F64(DigitsValue(chars, 0), Pow10(frac))

RECURSIVE parse_precedence(_, _)
RECURSIVE declaration(_)
RECURSIVE statement(_)

expression(c) == parse_precedence(c, Precedence("Assignment"))

number(c) ==
  EmitConstant(c, "Constant",
    Number(ParseF64(Slice(c.source, c.previous.start, c.previous.length))))

string(c) ==
  EmitConstant(c, "Constant",
    ObjString(Slice(c.source, c.previous.start + 1, c.previous.length - 2)))

literal(c) ==
  IF c.status # "ok" THEN c
  ELSE CASE c.previous.tokentype = "Nil" -> Emit(c, "Nil")
         [] c.previous.tokentype = "True" -> Emit(c, "True")
         [] c.previous.tokentype = "False" -> Emit(c, "False")
         [] OTHER -> Panicked(c)

grouping(c) == consume(expression(c), "RightParen")

\* operator is the type of the token before the operand is parsed
unary(c) ==
  IF c.status # "ok" THEN c
  ELSE Then(parse_precedence(c, Precedence("Unary")), LAMBDA c1:
         CASE c.previous.tokentype = "Minus" -> Emit(c1, "Negate")
           [] c.previous.tokentype = "Bang" -> Emit(c1, "Not")
           [] OTHER -> Reported(c1))

\* push_jmp: [c, r], r the offset of the placeholder operand
\* jumps records the opcode and the offset of every jump emitted, patched the
\* offsets of the jumps whose operand has been written with a distance
MarkJump(c, at, op, patched) ==
  IF c.status = "ok"
  THEN [c EXCEPT !.jumps = @ \cup {[at |-> at, op |-> op]},
                 !.patched = IF patched THEN @ \cup {at} ELSE @]
  ELSE c

push_jmp(c, op) ==
  IF c.status # "ok" THEN [c |-> c, r |-> Size(c) - 1]
  ELSE With(EmitPlaceholder(Emit(c, op), "Panic"), LAMBDA c1:
         [c |-> MarkJump(c1, Size(c1) - 2, op, FALSE), r |-> Size(c1) - 1])

\* a variant of patch_address that leaves the placeholder in place
patch_address_Skipped(c, jmp_address) == c

\* targets records, for the jump at each offset, where it is meant to land: the
\* chunk size when patch_address is called, the loop_start given to push_loop
MarkTarget(c, at, target) ==
  IF c.status = "ok" THEN [c EXCEPT !.targets = @ \cup {[at |-> at, target |-> target]}] ELSE c

\* patch_address with a distance that is one short
patch_address_OneShort(c, jmp_address) ==
  IF c.status # "ok" THEN c
  ELSE MarkTarget([c EXCEPT !.memory =
                     replace_at_location(@, jmp_address, AsU16(Size(c) - jmp_address - 2)),
                   !.patched = @ \cup {jmp_address - 1}],
                  jmp_address - 1, Size(c))

patch_address(c, jmp_address) ==
  IF c.status # "ok" THEN c
  ELSE MarkTarget([c EXCEPT !.memory =
                     replace_at_location(@, jmp_address, AsU16(Size(c) - jmp_address - 1)),
                   !.patched = @ \cup {jmp_address - 1}],
                  jmp_address - 1, Size(c))

push_loop(c, loop_start) ==
  With(Emit(c, "Loop"), LAMBDA c1:
    MarkTarget(MarkJump(EmitRaw(c1, Size(c1) - loop_start + 1), Size(c), "Loop", TRUE),
               Size(c), loop_start))

logical_op(c, prec, jmp) ==
  IF c.status # "ok" THEN c
  ELSE With(push_jmp(c, jmp), LAMBDA end_jmp:
       With(parse_precedence(Emit(end_jmp.c, "Pop"), Precedence(prec)), LAMBDA c2:
         Then(patch_address(c2, end_jmp.r),
              LAMBDA c3:
                [c3 EXCEPT !.logicals =
                   @ \cup {[op |-> jmp, at |-> end_jmp.r - 1, rhs |-> end_jmp.r + 1,
                            end |-> Size(c3)]}])))

and_op(c) == logical_op(c, "And", "JmpFalse")

or_op(c) == logical_op(c, "Or", "JmpTrue")

\* operator is the type of the token before the right operand is parsed
binary(c) ==
  IF c.status # "ok" THEN c
  ELSE Then(parse_precedence(c, get_rule(c.previous.tokentype) + 1), LAMBDA c1:
         CASE c.previous.tokentype = "Plus" -> Emit(c1, "Add")
           [] c.previous.tokentype = "Minus" -> Emit(c1, "Subtract")
           [] c.previous.tokentype = "Star" -> Emit(c1, "Multiply")
           [] c.previous.tokentype = "Slash" -> Emit(c1, "Divide")
           [] c.previous.tokentype = "BangEqual" -> Emit(Emit(c1, "Equal"), "Not")
           [] c.previous.tokentype = "EqualEqual" -> Emit(c1, "Equal")
           [] c.previous.tokentype = "Greater" -> Emit(c1, "Greater")
           [] c.previous.tokentype = "GreaterEqual" -> Emit(Emit(c1, "Less"), "Not")
           [] c.previous.tokentype = "Less" -> Emit(c1, "Less")
           [] c.previous.tokentype = "LessEqual" -> Emit(Emit(c1, "Greater"), "Not")
           [] OTHER -> Reported(c1))

\* the argument loop of call_func: [c, args].  At Eof expression() consumes
\* nothing and does not panic, so the loop never ends.
RECURSIVE call_args(_, _)
call_args(c, args) ==
  IF c.status # "ok" THEN [c |-> c, args |-> args]
  ELSE IF check(c, "RightParen") THEN [c |-> advance(c), args |-> args]
  ELSE IF check(c, "Eof") THEN [c |-> Hung(c), args |-> args]
  ELSE With(expression(c), LAMBDA c1:
         call_args(IF c1.status = "ok" /\ check(c1, "Comma") THEN advance(c1) ELSE c1, args + 1))

\* call_sites records the offset of every Call emitted, callees the offset of
\* the PopStoreTmp emitted by the same call_func
MarkCall(c, c0, c1) ==
  IF c1.status = "ok"
  THEN [c1 EXCEPT !.call_sites = @ \cup {Size(c0)},
                  !.callees = @ \cup {[pop |-> Size(c), call |-> Size(c0)]}]
  ELSE c1

\* call_func that emits Call without its operand
call_func_NoOperand(c) ==
  With(call_args(AddFuncReturns(Emit(c, "PopStoreTmp"), 1), 0), LAMBDA a:
    MarkCall(c, a.c, AddFuncReturns(Emit(a.c, "Call"), -1)))

call_func(c) ==
  With(call_args(AddFuncReturns(Emit(c, "PopStoreTmp"), 1), 0), LAMBDA a:
    MarkCall(c, a.c, AddFuncReturns(EmitRaw(Emit(a.c, "Call"), a.args), -1)))

\* find_local_var that searches locals front to back
find_local_var_Outermost(c) ==
  LET hits == {i \in 1..Len(c.locals) :
                 parse_identifier(c, c.locals[i].name) = parse_identifier(c, c.previous)}
  IN  IF hits = {} THEN -1
      ELSE (CHOOSE i \in hits : \A j \in hits : i <= j) - 1

\* -1 when no local has the lexeme of the previous token
find_local_var(c) ==
  LET hits == {i \in 1..Len(c.locals) :
                 parse_identifier(c, c.locals[i].name) = parse_identifier(c, c.previous)}
  IN  IF hits = {} THEN -1
      ELSE (CHOOSE i \in hits : \A j \in hits : j <= i) - 1

\* idents records each identifier compiled: the offset of the opcode emitted
\* for it (c1 is the compiler when it is emitted), whether it is assigned to,
\* its lexeme, and the lexemes of the locals when the identifier is met
MarkIdentifier(c, c1, assigned) ==
  IF c1.status = "ok"
  THEN [c1 EXCEPT !.idents =
          @ \cup {[at |-> Size(c1), assigned |-> assigned,
                   name |-> parse_identifier(c, c.previous),
                   locals |-> [i \in 1..Len(c.locals) |->
                                 parse_identifier(c, c.locals[i].name)]]}]
  ELSE c1

\* identifier whose right-hand side is parsed above Assignment precedence, so
\* that it cannot itself be an assignment
identifier_FlatAssignment(c, can_assign) ==
  CASE c.status # "ok" -> c
    [] can_assign /\ check(c, "Equal") ->
         With(parse_precedence(match_token(c, "Equal"), Precedence("Or")), LAMBDA c1:
           IF find_local_var(c) < 0
           THEN EmitConstant(MarkIdentifier(c, c1, TRUE), "SetGlobalVar",
                             ObjString(parse_identifier(c, c.previous)))
           ELSE EmitConstant(MarkIdentifier(c, c1, TRUE), "SetLocalVar",
                             Number(F64(find_local_var(c), 1))))
    [] find_local_var(c) < 0 ->
         EmitConstant(MarkIdentifier(c, c, FALSE), "GetGlobalVar",
                      ObjString(parse_identifier(c, c.previous)))
    [] OTHER ->
         EmitConstant(MarkIdentifier(c, c, FALSE), "GetLocalVar",
                      Number(F64(find_local_var(c), 1)))

identifier(c, can_assign) ==
  CASE c.status # "ok" -> c
    [] can_assign /\ check(c, "Equal") ->
         With(expression(match_token(c, "Equal")), LAMBDA c1:
           IF find_local_var(c) < 0
           THEN EmitConstant(MarkIdentifier(c, c1, TRUE), "SetGlobalVar",
                             ObjString(parse_identifier(c, c.previous)))
           ELSE EmitConstant(MarkIdentifier(c, c1, TRUE), "SetLocalVar",
                             Number(F64(find_local_var(c), 1))))
    [] find_local_var(c) < 0 ->
         EmitConstant(MarkIdentifier(c, c, FALSE), "GetGlobalVar",
                      ObjString(parse_identifier(c, c.previous)))
    [] OTHER ->
         EmitConstant(MarkIdentifier(c, c, FALSE), "GetLocalVar",
                      Number(F64(find_local_var(c), 1)))

InfixTokens ==
  {"Minus", "Plus", "Slash", "Star", "BangEqual", "EqualEqual", "Greater",
   "GreaterEqual", "Less", "LessEqual", "And", "Or", "LeftParen"}

\* infix: Option<()>; None (c unchanged) when the token is not in InfixTokens
infix(c, can_assign) ==
  CASE c.status # "ok" -> c
    [] c.previous.tokentype = "And" -> and_op(c)
    [] c.previous.tokentype = "Or" -> or_op(c)
    [] c.previous.tokentype = "LeftParen" -> call_func(c)
    [] c.previous.tokentype \in InfixTokens \ {"And", "Or", "LeftParen"} -> binary(c)
    [] OTHER -> c

PrefixTokens ==
  {"LeftParen", "Minus", "Number", "Nil", "True", "False", "Bang", "String", "Identifier"}

\* prefix: Option<()>; None (c unchanged) when the token is not in PrefixTokens
prefix(c, can_assign) ==
  CASE c.status # "ok" -> c
    [] c.previous.tokentype = "LeftParen" -> grouping(c)
    [] c.previous.tokentype \in {"Minus", "Bang"} -> unary(c)
    [] c.previous.tokentype = "Number" -> number(c)
    [] c.previous.tokentype \in {"Nil", "True", "False"} -> literal(c)
    [] c.previous.tokentype = "String" -> string(c)
    [] c.previous.tokentype = "Identifier" -> identifier(c, can_assign)
    [] OTHER -> c

\* while precedence <= get_rule(current) { advance(); infix(can_assign); }
RECURSIVE infix_loop(_, _, _)
infix_loop(c, precedence, can_assign) ==
  CASE c.status # "ok" -> c
    [] precedence <= get_rule(c.current.tokentype) ->
         infix_loop(infix(advance(c), can_assign), precedence, can_assign)
    [] OTHER -> c

\* the prefix rule of the token just consumed, or the report that it has none
prefix_or_report(c, can_assign) ==
  IF c.previous.tokentype \in PrefixTokens THEN prefix(c, can_assign) ELSE Reported(c)

\* let can_assign = precedence <= Precedence::Assignment
CanAssign(precedence) == precedence <= Precedence("Assignment")

\* parse_precedence without its closing test for a stray =
parse_precedence_NoTargetCheck(c, precedence) ==
  IF c.status # "ok" THEN c
  ELSE infix_loop(prefix_or_report(advance(c), CanAssign(precedence)), precedence,
                  CanAssign(precedence))

parse_precedence(c, precedence) ==
  IF c.status # "ok" THEN c
  ELSE Then(infix_loop(prefix_or_report(advance(c), CanAssign(precedence)), precedence,
                       CanAssign(precedence)),
            LAMBDA c3:
              IF CanAssign(precedence) /\ check(c3, "Equal")
              THEN InvalidAssignment(match_token(c3, "Equal"))
              ELSE c3)

\* the bookkeeping after a begin_scope, local_var or end_scope: scope_depth, the
\* depths along locals, and the number of Pops the operation emitted from offset at
LogScope(c, op, at) ==
  [c EXCEPT !.scope_log =
     @ \cup {[op |-> op, scope_depth |-> c.scope_depth,
              depths |-> [i \in 1..Len(c.locals) |-> c.locals[i].depth],
              at |-> at, pops |-> Size(c) - at]}]

begin_scope(c) ==
  IF c.status # "ok" THEN c
  ELSE LogScope([c EXCEPT !.scope_depth = @ + 1], "begin_scope", Size(c))

\* while locals.len() > 0 && locals.last().depth > scope_depth { Pop; locals.pop() }
RECURSIVE end_scope_loop(_)
end_scope_loop(c) ==
  IF Len(c.locals) > 0 /\ c.locals[Len(c.locals)].depth > c.scope_depth
  THEN end_scope_loop([Emit(c, "Pop") EXCEPT !.locals = SubSeq(@, 1, Len(@) - 1)])
  ELSE c

end_scope(c) ==
  IF c.status # "ok" THEN c
  ELSE IF c.scope_depth = 0
  THEN \* usize underflow: a panic with overflow checks, else usize::MAX (for
       \* which the largest integer of the checker stands)
       (IF c.overflow_checks THEN Panicked(c)
        ELSE LogScope(end_scope_loop([c EXCEPT !.scope_depth = 2147483647]),
                      "end_scope", Size(c)))
  ELSE LogScope(end_scope_loop([c EXCEPT !.scope_depth = @ - 1]), "end_scope", Size(c))

local_var(c, name) ==
  IF c.status # "ok" THEN c
  ELSE IF c.scope_depth = 0 THEN c
  ELSE LogScope([c EXCEPT !.locals = Append(@, Local(name, c.scope_depth, c.func_returns))],
                "local_var", Size(c))

\* the initializer of var_declaration: the expression after '=', or Nil
var_initializer(c) ==
  IF c.status # "ok" THEN c
  ELSE IF check(c, "Equal") THEN expression(match_token(c, "Equal"))
  ELSE Emit(c, "Nil")

var_declaration(c) ==
  With(consume(c, "Identifier"), LAMBDA c1:
    Then(consume(var_initializer(c1), "SemiColon"), LAMBDA c3:
      IF c3.scope_depth > 0 THEN local_var(c3, c1.previous)
      ELSE EmitConstant(c3, "DefineGlobalVar",
                        ObjString(parse_identifier(c1, c1.previous)))))

param_declaration(c) ==
  With(consume(c, "Identifier"), LAMBDA c1:
    With(local_var(c1, c1.previous), LAMBDA c2:
      IF c2.status = "ok" /\ check(c2, "Comma") THEN advance(c2) ELSE c2))

\* while !match_token(RightParen) { param_declaration(); arity += 1; } : [c, arity]
RECURSIVE params_loop(_, _)
params_loop(c, arity) ==
  IF c.status # "ok" THEN [c |-> c, arity |-> arity]
  ELSE IF check(c, "RightParen") THEN [c |-> advance(c), arity |-> arity]
  ELSE params_loop(param_declaration(c), arity + 1)

\* the function declared: the address in its value, the offset of the first word
\* of its body, its arity, and whether it is declared outside every block and
\* function
MarkFunction(c, address, body, arity, top_level) ==
  IF c.status = "ok"
  THEN [c EXCEPT !.funcs =
          @ \cup {[address |-> address, body |-> body, arity |-> arity,
                   top_level |-> top_level]}]
  ELSE c

\* frames records, for each function being compiled, the number of locals at its
\* declaration (base) and whether its name becomes a local (self: 1 when nested)
PushFrame(c) ==
  IF c.status = "ok"
  THEN [c EXCEPT !.frames = Append(@, [base |-> Len(c.locals),
                                       self |-> IF c.scope_depth > 0 THEN 1 ELSE 0])]
  ELSE c

PopFrame(c) ==
  IF c.status = "ok" THEN [c EXCEPT !.frames = SubSeq(@, 1, Len(@) - 1)] ELSE c

\* the locals of the function being compiled: its parameters and the locals
\* declared so far in its body
FrameLocals(c) ==
  IF c.frames = <<>> THEN 0
  ELSE Len(c.locals) - c.frames[Len(c.frames)].base - c.frames[Len(c.frames)].self

\* func_address_declar: [c, r], r the offset of the operand of the Jmp over the body
func_address_declar(c) ==
  With(consume(c, "Identifier"), LAMBDA c1:
    With(params_loop(consume(begin_scope(PushFrame(c1)), "LeftParen"), 0), LAMBDA p:
      With(EmitConstant(p.c, "Constant",
                        ObjFunction(parse_identifier(c1, c1.previous), Size(c1) + 6,
                                    p.arity)),
           LAMBDA c3:
             With(push_jmp(IF c3.status # "ok" THEN c3
                           ELSE IF c3.scope_depth - 1 > 0 THEN local_var(c3, c1.previous)
                           ELSE EmitConstant(c3, "DefineGlobalVar",
                                             ObjString(parse_identifier(c1, c1.previous))),
                           "Jmp"),
                  LAMBDA j:
                    [c |-> MarkFunction(j.c, Size(c1) + 6, j.r + 1, p.arity,
                                        c1.scope_depth = 0),
                     r |-> j.r]))))

\* while !check(RightBrace) && !check(Eof) { declaration(); }
RECURSIVE block_loop(_)
block_loop(c) ==
  CASE c.status # "ok" -> c
    [] ~check(c, "RightBrace") /\ ~check(c, "Eof") -> block_loop(declaration(c))
    [] OTHER -> c

block(c) == consume(block_loop(c), "RightBrace")

\* the loop of return_scope from index i (0-based): one Pop per local from the
\* front of locals while the local is in the current scope or function frame;
\* scope_depth - 1 and func_returns - 1 underflow at 0
RECURSIVE return_scope_loop(_, _)
return_scope_loop(c, i) ==
  IF c.status # "ok" \/ i >= Len(c.locals) THEN c
  ELSE IF c.scope_depth = 0 /\ c.overflow_checks THEN Panicked(c)
  ELSE IF c.scope_depth > 0 /\ c.locals[i + 1].depth > c.scope_depth - 1
       THEN return_scope_loop(Emit(c, "Pop"), i + 1)
  ELSE IF c.func_returns = 0
       THEN (IF c.overflow_checks THEN Panicked(c) ELSE c)
  ELSE IF c.locals[i + 1].func_depth = c.func_returns - 1
       THEN return_scope_loop(Emit(c, "Pop"), i + 1)
  ELSE c

return_scope(c) == return_scope_loop(c, 0)

MarkReturn(c) == [c EXCEPT !.returns = @ + 1]

\* return_sites records each return statement compiled: whether it has a value,
\* the offset of its first word, the offset after its expression and
\* PopStoreTmp (first for return;), the offset of its Return, the locals of the
\* function's frame, all the locals in scope, those of them declared in an
\* enclosing scope (shallow), and whether it is inside a function
MarkReturnSite(c, value, first, c1) ==
  IF c1.status = "ok"
  THEN [c1 EXCEPT !.return_sites =
          @ \cup {[value |-> value, start |-> Size(c), first |-> first, ret |-> Size(c1),
                   frame |-> FrameLocals(c1), locals |-> Len(c1.locals),
                   shallow |-> Cardinality({i \in 1..Len(c1.locals) :
                                              c1.locals[i].depth < c1.scope_depth}),
                   in_function |-> c1.frames # <<>>]}]
  ELSE c1

\* return_statement whose return; emits the Return opcode alone
return_statement_BareReturn(c) ==
  IF c.status # "ok" THEN c
  ELSE IF check(c, "SemiColon")
  THEN Emit(MarkReturnSite(c, FALSE, Size(c), match_token(MarkReturn(c), "SemiColon")),
            "Return")
  ELSE With(Emit(expression(MarkReturn(c)), "PopStoreTmp"), LAMBDA c1:
         Emit(MarkReturnSite(c, TRUE, Size(c1), return_scope(consume(c1, "SemiColon"))),
              "Return"))

return_statement(c) ==
  IF c.status # "ok" THEN c
  ELSE IF check(c, "SemiColon")
  THEN Emit(MarkReturnSite(c, FALSE, Size(c),
                           return_scope(match_token(MarkReturn(c), "SemiColon"))),
            "Return")
  ELSE With(Emit(expression(MarkReturn(c)), "PopStoreTmp"), LAMBDA c1:
         Emit(MarkReturnSite(c, TRUE, Size(c1), return_scope(consume(c1, "SemiColon"))),
              "Return"))

function(c) ==
  With(func_address_declar(c), LAMBDA func_end:
    With(block(consume(AddFuncReturns(func_end.c, 1), "LeftBrace")), LAMBDA c1:
      PopFrame(AddFuncReturns(
        patch_address(Emit(end_scope(c1), "Return"), func_end.r),
        -1))))

print_statement(c) ==
  With(expression(c), LAMBDA c1: Emit(consume(c1, "SemiColon"), "Print"))

expression_statement(c) ==
  With(expression(c), LAMBDA c1: Emit(consume(c1, "SemiColon"), "Pop"))

\* the first clause of for
for_initializer(c) ==
  IF c.status # "ok" THEN c
  ELSE IF check(c, "SemiColon") THEN consume(match_token(c, "SemiColon"), "SemiColon")
  ELSE IF check(c, "Var") THEN var_declaration(match_token(c, "Var"))
  ELSE expression_statement(c)

\* the condition clause of for: [c, exit_jmp], exit_jmp -1 when there is none
for_condition(c) ==
  IF c.status # "ok" THEN [c |-> c, exit_jmp |-> -1]
  ELSE IF check(c, "SemiColon") THEN [c |-> match_token(c, "SemiColon"), exit_jmp |-> -1]
  ELSE With(push_jmp(consume(expression(c), "SemiColon"), "JmpFalse"), LAMBDA j:
         [c |-> Emit(j.c, "Pop"), exit_jmp |-> j.r])

\* the increment clause of for: [c, loop_start]
for_increment(c, loop_start) ==
  IF c.status # "ok" THEN [c |-> c, loop_start |-> loop_start]
  ELSE IF check(c, "RightParen")
  THEN [c |-> match_token(c, "RightParen"), loop_start |-> loop_start]
  ELSE With(push_jmp(c, "Jmp"), LAMBDA body_jmp:
         With(expression(body_jmp.c), LAMBDA c1:
           [c |-> patch_address(
                    push_loop(consume(Emit(c1, "Pop"), "RightParen"), loop_start),
                    body_jmp.r),
            loop_start |-> Size(body_jmp.c)]))

\* loops records the code of every loop compiled: the offsets at which the
\* statement, its condition, its step and its body start, and the offset of the
\* JmpFalse that ends the condition; -1 for a clause that is not there
MarkLoop(c, kind, start, cond, branch, step, body) ==
  IF c.status = "ok"
  THEN [c EXCEPT !.loops = @ \cup {[kind |-> kind, start |-> start, cond |-> cond,
                                    branch |-> branch, step |-> step, body |-> body]}]
  ELSE c

for_statement(c) ==
  With(for_initializer(consume(begin_scope(c), "LeftParen")), LAMBDA c2:
    With(for_condition(c2), LAMBDA cnd:
      With(for_increment(cnd.c, Size(c2)), LAMBDA stp:
        With(statement(stp.c), LAMBDA c3:
          end_scope(
            MarkLoop(IF cnd.exit_jmp # -1
                     THEN Emit(patch_address(push_loop(c3, stp.loop_start), cnd.exit_jmp),
                               "Pop")
                     ELSE push_loop(c3, stp.loop_start),
                     "for", Size(c), Size(c2),
                     IF cnd.exit_jmp # -1 THEN cnd.exit_jmp - 1 ELSE -1,
                     IF stp.loop_start # Size(c2) THEN stp.loop_start ELSE -1,
                     Size(stp.c)))))))

\* the else branch of if_statement
else_branch(c) ==
  IF c.status = "ok" /\ check(c, "Else") THEN statement(match_token(c, "Else")) ELSE c

if_statement(c) ==
  With(push_jmp(consume(expression(consume(c, "LeftParen")), "RightParen"), "JmpFalse"),
       LAMBDA thn_address:
         With(statement(Emit(thn_address.c, "Pop")), LAMBDA c1:
           With(push_jmp(c1, "Jmp"), LAMBDA else_address:
             With(else_branch(Emit(patch_address(else_address.c, thn_address.r), "Pop")),
                  LAMBDA c2: patch_address(c2, else_address.r)))))

while_statement(c) ==
  With(push_jmp(consume(expression(consume(c, "LeftParen")), "RightParen"), "JmpFalse"),
       LAMBDA end_address:
         With(statement(Emit(end_address.c, "Pop")), LAMBDA c1:
           MarkLoop(
             Emit(patch_address(push_loop(c1, Size(c)), end_address.r), "Pop"),
             "while", Size(c), Size(c), end_address.r - 1, -1, end_address.r + 2)))

\* scope_depth and the length of locals before and after one declaration or
\* statement of the given kind, compiled to the code region [start, end)
ScopeEffect(c0, kind, c1) ==
  [start |-> Size(c0), end |-> Size(c1), kind |-> kind,
   depth_before |-> c0.scope_depth, depth_after |-> c1.scope_depth,
   locals_before |-> Len(c0.locals), locals_after |-> Len(c1.locals)]

\* the code region [start, end) emitted for one statement of the given kind:
\* local when the statement is inside a block or function, return_free when no
\* return statement is compiled in it
MarkStatement(c0, kind, c1) ==
  CASE c1.status # "ok" -> c1
    [] Size(c1) <= Size(c0) ->
         [c1 EXCEPT !.scopes = @ \cup {ScopeEffect(c0, kind, c1)}]
    [] OTHER ->
         [c1 EXCEPT !.stmts =
            @ \cup {[start |-> Size(c0), end |-> Size(c1), kind |-> kind,
                     local |-> c0.scope_depth > 0,
                     return_free |-> c1.returns = c0.returns]},
                    !.scopes = @ \cup {ScopeEffect(c0, kind, c1)}]

statement(c) ==
  CASE c.status # "ok" -> c
    [] check(c, "Print") ->
         MarkStatement(c, "print", print_statement(match_token(c, "Print")))
    [] check(c, "Fun") ->
         MarkStatement(c, "function", function(match_token(c, "Fun")))
    [] check(c, "For") ->
         MarkStatement(c, "for", for_statement(match_token(c, "For")))
    [] check(c, "If") ->
         MarkStatement(c, "if", if_statement(match_token(c, "If")))
    [] check(c, "While") ->
         MarkStatement(c, "while", while_statement(match_token(c, "While")))
    [] check(c, "Return") ->
         MarkStatement(c, "return", return_statement(match_token(c, "Return")))
    [] check(c, "LeftBrace") ->
         With(block(begin_scope(match_token(c, "LeftBrace"))), LAMBDA c1:
           MarkStatement(c, "block", end_scope(c1)))
    [] OTHER -> MarkStatement(c, "expression", expression_statement(c))

declaration(c) ==
  CASE c.status # "ok" -> c
    [] check(c, "Var") -> MarkStatement(c, "var", var_declaration(match_token(c, "Var")))
    [] OTHER -> statement(c)

\* while !match_token(Eof) { declaration(); }
RECURSIVE compile_loop(_)
compile_loop(c) ==
  CASE c.status # "ok" -> c
    [] check(c, "Eof") -> advance(c)
    [] OTHER -> compile_loop(declaration(c))

\* compile without the closing push of Eof
compile_WithoutEof(c) == compile_loop(advance(c))

\* Compiler::compile: the compiler after the call; c.memory is the chunk returned
compile(c) == Emit(compile_loop(advance(c)), "Eof")

\* main.rs run(): the compiler state after compiling the script
Compiled(script, overflow_checks) ==
  compile(Compiler_new(script, MemorySlice_new, Scanner_new(script), overflow_checks))

(***************************************************************************)
(* The scripts run.  Scenarios are whole scripts; the families put every   *)
(* operand of Operands around every operator, after a prelude that         *)
(* declares the functions f and g.                                         *)
(***************************************************************************)

\* number literals are 0 .. MaxNumber
MaxNumber == 1

NumberLexeme(n) == <<Ascii[17 + n]>>

Scenarios ==
  {
    \* print 1 + 2 * 3;
    <<"p", "r", "i", "n", "t", " ", "1", " ", "+", " ", "2", " ", "*", " ", "3", ";">>,
    \* var a = "foo"; var b = "bar"; print a + b;
    <<"v", "a", "r", " ", "a", " ", "=", " ", "\"", "f", "o", "o", "\"", ";", " ", "v",
      "a", "r", " ", "b", " ", "=", " ", "\"", "b", "a", "r", "\"", ";", " ", "p", "r",
      "i", "n", "t", " ", "a", " ", "+", " ", "b", ";">>,
    \* var x = 0; while (x < 3) { print x; x = x + 1; }
    <<"v", "a", "r", " ", "x", " ", "=", " ", "0", ";", " ", "w", "h", "i", "l", "e", " ",
      "(", "x", " ", "<", " ", "3", ")", " ", "{", " ", "p", "r", "i", "n", "t", " ", "x",
      ";", " ", "x", " ", "=", " ", "x", " ", "+", " ", "1", ";", " ", "}">>,
    \* function add(a,b) { return a + b; } print add(2,5);
    <<"f", "u", "n", "c", "t", "i", "o", "n", " ", "a", "d", "d", "(", "a", ",", "b", ")",
      " ", "{", " ", "r", "e", "t", "u", "r", "n", " ", "a", " ", "+", " ", "b", ";", " ",
      "}", " ", "p", "r", "i", "n", "t", " ", "a", "d", "d", "(", "2", ",", "5", ")", ";">>,
    \* var i; for (i = 0; i < 3; i = i + 1) { print i; }
    <<"v", "a", "r", " ", "i", ";", " ", "f", "o", "r", " ", "(", "i", " ", "=", " ", "0",
      ";", " ", "i", " ", "<", " ", "3", ";", " ", "i", " ", "=", " ", "i", " ", "+", " ",
      "1", ")", " ", "{", " ", "p", "r", "i", "n", "t", " ", "i", ";", " ", "}">>,
    \* print 7 - 2 - 1;
    <<"p", "r", "i", "n", "t", " ", "7", " ", "-", " ", "2", " ", "-", " ", "1", ";">>,
    \* if (true and false) print "t"; else print "f";
    <<"i", "f", " ", "(", "t", "r", "u", "e", " ", "a", "n", "d", " ", "f", "a", "l", "s",
      "e", ")", " ", "p", "r", "i", "n", "t", " ", "\"", "t", "\"", ";", " ", "e", "l",
      "s", "e", " ", "p", "r", "i", "n", "t", " ", "\"", "f", "\"", ";">>,
    \* { var a = 1; print a; }
    <<"{", " ", "v", "a", "r", " ", "a", " ", "=", " ", "1", ";", " ", "p", "r", "i", "n",
      "t", " ", "a", ";", " ", "}">>,
    \* { var a = 1; var b = 2; print b; }
    <<"{", " ", "v", "a", "r", " ", "a", " ", "=", " ", "1", ";", " ", "v", "a", "r", " ",
      "b", " ", "=", " ", "2", ";", " ", "p", "r", "i", "n", "t", " ", "b", ";", " ", "}">>,
    \* { var a = 1; a = 2; print a; }
    <<"{", " ", "v", "a", "r", " ", "a", " ", "=", " ", "1", ";", " ", "a", " ", "=", " ",
      "2", ";", " ", "p", "r", "i", "n", "t", " ", "a", ";", " ", "}">>,
    \* { var a = 1; { var b = a; } print a; }
    <<"{", " ", "v", "a", "r", " ", "a", " ", "=", " ", "1", ";", " ", "{", " ", "v", "a",
      "r", " ", "b", " ", "=", " ", "a", ";", " ", "}", " ", "p", "r", "i", "n", "t", " ",
      "a", ";", " ", "}">>,
    \* { function f() { } }
    <<"{", " ", "f", "u", "n", "c", "t", "i", "o", "n", " ", "f", "(", ")", " ", "{", " ",
      "}", " ", "}">>,
    \* function f() { function g() { } }
    <<"f", "u", "n", "c", "t", "i", "o", "n", " ", "f", "(", ")", " ", "{", " ", "f", "u",
      "n", "c", "t", "i", "o", "n", " ", "g", "(", ")", " ", "{", " ", "}", " ", "}">>,
    \* function f(a) { return a; } print f(3);
    <<"f", "u", "n", "c", "t", "i", "o", "n", " ", "f", "(", "a", ")", " ", "{", " ", "r",
      "e", "t", "u", "r", "n", " ", "a", ";", " ", "}", " ", "p", "r", "i", "n", "t", " ",
      "f", "(", "3", ")", ";">>,
    \* function f(a) { return a; } print 1 + f(3);
    <<"f", "u", "n", "c", "t", "i", "o", "n", " ", "f", "(", "a", ")", " ", "{", " ", "r",
      "e", "t", "u", "r", "n", " ", "a", ";", " ", "}", " ", "p", "r", "i", "n", "t", " ",
      "1", " ", "+", " ", "f", "(", "3", ")", ";">>,
    \* function f() { } print f();
    <<"f", "u", "n", "c", "t", "i", "o", "n", " ", "f", "(", ")", " ", "{", " ", "}", " ",
      "p", "r", "i", "n", "t", " ", "f", "(", ")", ";">>,
    \* function f(a) { print a; } f(1); f(2);
    <<"f", "u", "n", "c", "t", "i", "o", "n", " ", "f", "(", "a", ")", " ", "{", " ", "p",
      "r", "i", "n", "t", " ", "a", ";", " ", "}", " ", "f", "(", "1", ")", ";", " ", "f",
      "(", "2", ")", ";">>,
    \* function f(a, b) { return b; } print f(1, 2);
    <<"f", "u", "n", "c", "t", "i", "o", "n", " ", "f", "(", "a", ",", " ", "b", ")", " ",
      "{", " ", "r", "e", "t", "u", "r", "n", " ", "b", ";", " ", "}", " ", "p", "r", "i",
      "n", "t", " ", "f", "(", "1", ",", " ", "2", ")", ";">>,
    \* function f() { return 4; } print f() + f();
    <<"f", "u", "n", "c", "t", "i", "o", "n", " ", "f", "(", ")", " ", "{", " ", "r", "e",
      "t", "u", "r", "n", " ", "4", ";", " ", "}", " ", "p", "r", "i", "n", "t", " ", "f",
      "(", ")", " ", "+", " ", "f", "(", ")", ";">>,
    \* function f(a) { a = 5; return a; } print f(1);
    <<"f", "u", "n", "c", "t", "i", "o", "n", " ", "f", "(", "a", ")", " ", "{", " ", "a",
      " ", "=", " ", "5", ";", " ", "r", "e", "t", "u", "r", "n", " ", "a", ";", " ", "}",
      " ", "p", "r", "i", "n", "t", " ", "f", "(", "1", ")", ";">>,
    \* if (1 < 2) print 1; else print 2;
    <<"i", "f", " ", "(", "1", " ", "<", " ", "2", ")", " ", "p", "r", "i", "n", "t", " ",
      "1", ";", " ", "e", "l", "s", "e", " ", "p", "r", "i", "n", "t", " ", "2", ";">>,
    \* if (2 < 1) print 1; else print 2;
    <<"i", "f", " ", "(", "2", " ", "<", " ", "1", ")", " ", "p", "r", "i", "n", "t", " ",
      "1", ";", " ", "e", "l", "s", "e", " ", "p", "r", "i", "n", "t", " ", "2", ";">>,
    \* if (false) print 1;
    <<"i", "f", " ", "(", "f", "a", "l", "s", "e", ")", " ", "p", "r", "i", "n", "t", " ",
      "1", ";">>,
    \* if (nil) print 1;
    <<"i", "f", " ", "(", "n", "i", "l", ")", " ", "p", "r", "i", "n", "t", " ", "1", ";">>,
    \* for (var i = 0; i < 2; i = i + 1) print i;
    <<"f", "o", "r", " ", "(", "v", "a", "r", " ", "i", " ", "=", " ", "0", ";", " ", "i",
      " ", "<", " ", "2", ";", " ", "i", " ", "=", " ", "i", " ", "+", " ", "1", ")", " ",
      "p", "r", "i", "n", "t", " ", "i", ";">>,
    \* var x = true; while (x) x = false;
    <<"v", "a", "r", " ", "x", " ", "=", " ", "t", "r", "u", "e", ";", " ", "w", "h", "i",
      "l", "e", " ", "(", "x", ")", " ", "x", " ", "=", " ", "f", "a", "l", "s", "e", ";">>,
    \* print (true or false) and !(false or nil == nil);
    <<"p", "r", "i", "n", "t", " ", "(", "t", "r", "u", "e", " ", "o", "r", " ", "f", "a",
      "l", "s", "e", ")", " ", "a", "n", "d", " ", "!", "(", "f", "a", "l", "s", "e", " ",
      "o", "r", " ", "n", "i", "l", " ", "=", "=", " ", "n", "i", "l", ")", ";">>,
    \* print 0 / 0 == 0 / 0;
    <<"p", "r", "i", "n", "t", " ", "0", " ", "/", " ", "0", " ", "=", "=", " ", "0", " ",
      "/", " ", "0", ";">>,
    \* print 1 / 0 > 7 / 2;
    <<"p", "r", "i", "n", "t", " ", "1", " ", "/", " ", "0", " ", ">", " ", "7", " ", "/",
      " ", "2", ";">>,
    \* print -(1 / 2) * 4 - 1.5;
    <<"p", "r", "i", "n", "t", " ", "-", "(", "1", " ", "/", " ", "2", ")", " ", "*", " ",
      "4", " ", "-", " ", "1", ".", "5", ";">>,
    \* for ( ; ; ) {}
    <<"f", "o", "r", " ", "(", " ", ";", " ", ";", " ", ")", " ", "{", "}">>,
    \* 1 = 2;
    <<"1", " ", "=", " ", "2", ";">>,
    \* return;
    <<"r", "e", "t", "u", "r", "n", ";">>,
    \* print 1 // one\nprint 2;
    <<"p", "r", "i", "n", "t", " ", "1", " ", "/", "/", " ", "o", "n", "e", "\n", "p", "r",
      "i", "n", "t", " ", "2", ";">>,
    \* { function f() { if (true) { print 1; print 1; print 1; print 1; print 1; print 1; print 1; } } var a = 1; a(); }
    <<"{", " ", "f", "u", "n", "c", "t", "i", "o", "n", " ", "f", "(", ")", " ", "{", " ",
      "i", "f", " ", "(", "t", "r", "u", "e", ")", " ", "{", " ", "p", "r", "i", "n", "t",
      " ", "1", ";", " ", "p", "r", "i", "n", "t", " ", "1", ";", " ", "p", "r", "i", "n",
      "t", " ", "1", ";", " ", "p", "r", "i", "n", "t", " ", "1", ";", " ", "p", "r", "i",
      "n", "t", " ", "1", ";", " ", "p", "r", "i", "n", "t", " ", "1", ";", " ", "p", "r",
      "i", "n", "t", " ", "1", ";", " ", "}", " ", "}", " ", "v", "a", "r", " ", "a", " ",
      "=", " ", "1", ";", " ", "a", "(", ")", ";", " ", "}">>,
    \* { function f() { if (true) { print 1; print 1; print 1; print 1; print 1; print 1; print 1; print 1; nil; } } var a = 1; a(); }
    <<"{", " ", "f", "u", "n", "c", "t", "i", "o", "n", " ", "f", "(", ")", " ", "{", " ",
      "i", "f", " ", "(", "t", "r", "u", "e", ")", " ", "{", " ", "p", "r", "i", "n", "t",
      " ", "1", ";", " ", "p", "r", "i", "n", "t", " ", "1", ";", " ", "p", "r", "i", "n",
      "t", " ", "1", ";", " ", "p", "r", "i", "n", "t", " ", "1", ";", " ", "p", "r", "i",
      "n", "t", " ", "1", ";", " ", "p", "r", "i", "n", "t", " ", "1", ";", " ", "p", "r",
      "i", "n", "t", " ", "1", ";", " ", "p", "r", "i", "n", "t", " ", "1", ";", " ", "n",
      "i", "l", ";", " ", "}", " ", "}", " ", "v", "a", "r", " ", "a", " ", "=", " ", "1",
      ";", " ", "a", "(", ")", ";", " ", "}">>,
    \* var i = 0; for (; i < 1; i = i + 1) print i;
    <<"v", "a", "r", " ", "i", " ", "=", " ", "0", ";", " ", "f", "o", "r", " ", "(", ";",
      " ", "i", " ", "<", " ", "1", ";", " ", "i", " ", "=", " ", "i", " ", "+", " ", "1",
      ")", " ", "p", "r", "i", "n", "t", " ", "i", ";">>,
    \* var i = 0; for (;; i < 1; i = i + 1) print i;
    <<"v", "a", "r", " ", "i", " ", "=", " ", "0", ";", " ", "f", "o", "r", " ", "(", ";",
      ";", " ", "i", " ", "<", " ", "1", ";", " ", "i", " ", "=", " ", "i", " ", "+", " ",
      "1", ")", " ", "p", "r", "i", "n", "t", " ", "i", ";">>,
    \* for (var i = 2; i < 2; i = i + 1) print i;
    <<"f", "o", "r", " ", "(", "v", "a", "r", " ", "i", " ", "=", " ", "2", ";", " ", "i",
      " ", "<", " ", "2", ";", " ", "i", " ", "=", " ", "i", " ", "+", " ", "1", ")", " ",
      "p", "r", "i", "n", "t", " ", "i", ";">>,
    \* for (var i = 0; i < 2;) i = i + 1;
    <<"f", "o", "r", " ", "(", "v", "a", "r", " ", "i", " ", "=", " ", "0", ";", " ", "i",
      " ", "<", " ", "2", ";", ")", " ", "i", " ", "=", " ", "i", " ", "+", " ", "1", ";">>,
    \* var x = 0; while (x < 2) { for (var i = 0; i < 1; i = i + 1) print i; x = x + 1; }
    <<"v", "a", "r", " ", "x", " ", "=", " ", "0", ";", " ", "w", "h", "i", "l", "e", " ",
      "(", "x", " ", "<", " ", "2", ")", " ", "{", " ", "f", "o", "r", " ", "(", "v", "a",
      "r", " ", "i", " ", "=", " ", "0", ";", " ", "i", " ", "<", " ", "1", ";", " ", "i",
      " ", "=", " ", "i", " ", "+", " ", "1", ")", " ", "p", "r", "i", "n", "t", " ", "i",
      ";", " ", "x", " ", "=", " ", "x", " ", "+", " ", "1", ";", " ", "}">>,
    \* while (false) print 1;
    <<"w", "h", "i", "l", "e", " ", "(", "f", "a", "l", "s", "e", ")", " ", "p", "r", "i",
      "n", "t", " ", "1", ";">>,
    \* function f() { var n = 0; while (n < 1) { n = n + 1; return n; } } print f() + f();
    <<"f", "u", "n", "c", "t", "i", "o", "n", " ", "f", "(", ")", " ", "{", " ", "v", "a",
      "r", " ", "n", " ", "=", " ", "0", ";", " ", "w", "h", "i", "l", "e", " ", "(", "n",
      " ", "<", " ", "1", ")", " ", "{", " ", "n", " ", "=", " ", "n", " ", "+", " ", "1",
      ";", " ", "r", "e", "t", "u", "r", "n", " ", "n", ";", " ", "}", " ", "}", " ", "p",
      "r", "i", "n", "t", " ", "f", "(", ")", " ", "+", " ", "f", "(", ")", ";">>,
    \* if (false) { print 1; print 1; print 1; print 1; print 1; print 1; print 1; }
    <<"i", "f", " ", "(", "f", "a", "l", "s", "e", ")", " ", "{", " ", "p", "r", "i", "n",
      "t", " ", "1", ";", " ", "p", "r", "i", "n", "t", " ", "1", ";", " ", "p", "r", "i",
      "n", "t", " ", "1", ";", " ", "p", "r", "i", "n", "t", " ", "1", ";", " ", "p", "r",
      "i", "n", "t", " ", "1", ";", " ", "p", "r", "i", "n", "t", " ", "1", ";", " ", "p",
      "r", "i", "n", "t", " ", "1", ";", " ", "}">>,
    \* if (true) { print 1; print 1; print 1; print 1; print 1; print 1; print 1; }
    <<"i", "f", " ", "(", "t", "r", "u", "e", ")", " ", "{", " ", "p", "r", "i", "n", "t",
      " ", "1", ";", " ", "p", "r", "i", "n", "t", " ", "1", ";", " ", "p", "r", "i", "n",
      "t", " ", "1", ";", " ", "p", "r", "i", "n", "t", " ", "1", ";", " ", "p", "r", "i",
      "n", "t", " ", "1", ";", " ", "p", "r", "i", "n", "t", " ", "1", ";", " ", "p", "r",
      "i", "n", "t", " ", "1", ";", " ", "}">>,
    \* var a; var b; a + b = 1;
    <<"v", "a", "r", " ", "a", ";", " ", "v", "a", "r", " ", "b", ";", " ", "a", " ", "+",
      " ", "b", " ", "=", " ", "1", ";">>,
    \* var a; (a) = 1;
    <<"v", "a", "r", " ", "a", ";", " ", "(", "a", ")", " ", "=", " ", "1", ";">>,
    \* function f() { } f() = 1;
    <<"f", "u", "n", "c", "t", "i", "o", "n", " ", "f", "(", ")", " ", "{", " ", "}", " ",
      "f", "(", ")", " ", "=", " ", "1", ";">>,
    \* var a; a = 1; { var b; b = a; }
    <<"v", "a", "r", " ", "a", ";", " ", "a", " ", "=", " ", "1", ";", " ", "{", " ", "v",
      "a", "r", " ", "b", ";", " ", "b", " ", "=", " ", "a", ";", " ", "}">>,
    \* function f(a) { } f();
    <<"f", "u", "n", "c", "t", "i", "o", "n", " ", "f", "(", "a", ")", " ", "{", " ", "}",
      " ", "f", "(", ")", ";">>,
    \* var a = 1; a();
    <<"v", "a", "r", " ", "a", " ", "=", " ", "1", ";", " ", "a", "(", ")", ";">>,
    \* function f() { } f(1);
    <<"f", "u", "n", "c", "t", "i", "o", "n", " ", "f", "(", ")", " ", "{", " ", "}", " ",
      "f", "(", "1", ")", ";">>,
    \* "s"();
    <<"\"", "s", "\"", "(", ")", ";">>,
    \* function f() { return 1; } function g() { return f(); } print g();
    <<"f", "u", "n", "c", "t", "i", "o", "n", " ", "f", "(", ")", " ", "{", " ", "r", "e",
      "t", "u", "r", "n", " ", "1", ";", " ", "}", " ", "f", "u", "n", "c", "t", "i", "o",
      "n", " ", "g", "(", ")", " ", "{", " ", "r", "e", "t", "u", "r", "n", " ", "f", "(",
      ")", ";", " ", "}", " ", "p", "r", "i", "n", "t", " ", "g", "(", ")", ";">>,
    \* function f() { } function g() { f(); f(); } g();
    <<"f", "u", "n", "c", "t", "i", "o", "n", " ", "f", "(", ")", " ", "{", " ", "}", " ",
      "f", "u", "n", "c", "t", "i", "o", "n", " ", "g", "(", ")", " ", "{", " ", "f", "(",
      ")", ";", " ", "f", "(", ")", ";", " ", "}", " ", "g", "(", ")", ";">>,
    \* function g(a) { return a; } function f(a) { return a; } print f(g(1));
    <<"f", "u", "n", "c", "t", "i", "o", "n", " ", "g", "(", "a", ")", " ", "{", " ", "r",
      "e", "t", "u", "r", "n", " ", "a", ";", " ", "}", " ", "f", "u", "n", "c", "t", "i",
      "o", "n", " ", "f", "(", "a", ")", " ", "{", " ", "r", "e", "t", "u", "r", "n", " ",
      "a", ";", " ", "}", " ", "p", "r", "i", "n", "t", " ", "f", "(", "g", "(", "1", ")",
      ")", ";">>,
    \* function g() { } function f(a) { } f(g());
    <<"f", "u", "n", "c", "t", "i", "o", "n", " ", "g", "(", ")", " ", "{", " ", "}", " ",
      "f", "u", "n", "c", "t", "i", "o", "n", " ", "f", "(", "a", ")", " ", "{", " ", "}",
      " ", "f", "(", "g", "(", ")", ")", ";">>,
    \* function f(a) { } f(1 + 2 * 3);
    <<"f", "u", "n", "c", "t", "i", "o", "n", " ", "f", "(", "a", ")", " ", "{", " ", "}",
      " ", "f", "(", "1", " ", "+", " ", "2", " ", "*", " ", "3", ")", ";">>,
    \* function f(a, b) { } f(true and false, "s");
    <<"f", "u", "n", "c", "t", "i", "o", "n", " ", "f", "(", "a", ",", " ", "b", ")", " ",
      "{", " ", "}", " ", "f", "(", "t", "r", "u", "e", " ", "a", "n", "d", " ", "f", "a",
      "l", "s", "e", ",", " ", "\"", "s", "\"", ")", ";">>,
    \* function f(a) { var b = 1; { var c = 2; return c; } } print f(0);
    <<"f", "u", "n", "c", "t", "i", "o", "n", " ", "f", "(", "a", ")", " ", "{", " ", "v",
      "a", "r", " ", "b", " ", "=", " ", "1", ";", " ", "{", " ", "v", "a", "r", " ", "c",
      " ", "=", " ", "2", ";", " ", "r", "e", "t", "u", "r", "n", " ", "c", ";", " ", "}",
      " ", "}", " ", "p", "r", "i", "n", "t", " ", "f", "(", "0", ")", ";">>,
    \* { var x = 1; function f(a) { return a; } }
    <<"{", " ", "v", "a", "r", " ", "x", " ", "=", " ", "1", ";", " ", "f", "u", "n", "c",
      "t", "i", "o", "n", " ", "f", "(", "a", ")", " ", "{", " ", "r", "e", "t", "u", "r",
      "n", " ", "a", ";", " ", "}", " ", "}">>,
    \* function f(a, b) { var c = 1; return c; } print f(1, 2);
    <<"f", "u", "n", "c", "t", "i", "o", "n", " ", "f", "(", "a", ",", " ", "b", ")", " ",
      "{", " ", "v", "a", "r", " ", "c", " ", "=", " ", "1", ";", " ", "r", "e", "t", "u",
      "r", "n", " ", "c", ";", " ", "}", " ", "p", "r", "i", "n", "t", " ", "f", "(", "1",
      ",", " ", "2", ")", ";">>,
    \* function f() { function g(a) { return a; } }
    <<"f", "u", "n", "c", "t", "i", "o", "n", " ", "f", "(", ")", " ", "{", " ", "f", "u",
      "n", "c", "t", "i", "o", "n", " ", "g", "(", "a", ")", " ", "{", " ", "r", "e", "t",
      "u", "r", "n", " ", "a", ";", " ", "}", " ", "}">>,
    \* function f(a) { return; } f(1);
    <<"f", "u", "n", "c", "t", "i", "o", "n", " ", "f", "(", "a", ")", " ", "{", " ", "r",
      "e", "t", "u", "r", "n", ";", " ", "}", " ", "f", "(", "1", ")", ";">>,
    \* function f() { return; } f();
    <<"f", "u", "n", "c", "t", "i", "o", "n", " ", "f", "(", ")", " ", "{", " ", "r", "e",
      "t", "u", "r", "n", ";", " ", "}", " ", "f", "(", ")", ";">>,
    \* { var x = 1; return; }
    <<"{", " ", "v", "a", "r", " ", "x", " ", "=", " ", "1", ";", " ", "r", "e", "t", "u",
      "r", "n", ";", " ", "}">>,
    \* function f(a) { var b = 1; { var c = 2; return; } } f(0);
    <<"f", "u", "n", "c", "t", "i", "o", "n", " ", "f", "(", "a", ")", " ", "{", " ", "v",
      "a", "r", " ", "b", " ", "=", " ", "1", ";", " ", "{", " ", "v", "a", "r", " ", "c",
      " ", "=", " ", "2", ";", " ", "r", "e", "t", "u", "r", "n", ";", " ", "}", " ", "}",
      " ", "f", "(", "0", ")", ";">>,
    \* function f(a) { if (a) { return 1; } return 0; } print f(true);
    <<"f", "u", "n", "c", "t", "i", "o", "n", " ", "f", "(", "a", ")", " ", "{", " ", "i",
      "f", " ", "(", "a", ")", " ", "{", " ", "r", "e", "t", "u", "r", "n", " ", "1", ";",
      " ", "}", " ", "r", "e", "t", "u", "r", "n", " ", "0", ";", " ", "}", " ", "p", "r",
      "i", "n", "t", " ", "f", "(", "t", "r", "u", "e", ")", ";">>,
    \* { var a = 1; { var a = 2; print a; } print a; }
    <<"{", " ", "v", "a", "r", " ", "a", " ", "=", " ", "1", ";", " ", "{", " ", "v", "a",
      "r", " ", "a", " ", "=", " ", "2", ";", " ", "p", "r", "i", "n", "t", " ", "a", ";",
      " ", "}", " ", "p", "r", "i", "n", "t", " ", "a", ";", " ", "}">>,
    \* var a = 1; { print a; var a = 2; a = 3; print a; }
    <<"v", "a", "r", " ", "a", " ", "=", " ", "1", ";", " ", "{", " ", "p", "r", "i", "n",
      "t", " ", "a", ";", " ", "v", "a", "r", " ", "a", " ", "=", " ", "2", ";", " ", "a",
      " ", "=", " ", "3", ";", " ", "p", "r", "i", "n", "t", " ", "a", ";", " ", "}">>,
    \* { var a = 1; var b = 2; { var a = 3; b = a; } a = b; }
    <<"{", " ", "v", "a", "r", " ", "a", " ", "=", " ", "1", ";", " ", "v", "a", "r", " ",
      "b", " ", "=", " ", "2", ";", " ", "{", " ", "v", "a", "r", " ", "a", " ", "=", " ",
      "3", ";", " ", "b", " ", "=", " ", "a", ";", " ", "}", " ", "a", " ", "=", " ", "b",
      ";", " ", "}">>,
    \* var a = 1; function f(a) { print a; a = 0; } f(2);
    <<"v", "a", "r", " ", "a", " ", "=", " ", "1", ";", " ", "f", "u", "n", "c", "t", "i",
      "o", "n", " ", "f", "(", "a", ")", " ", "{", " ", "p", "r", "i", "n", "t", " ", "a",
      ";", " ", "a", " ", "=", " ", "0", ";", " ", "}", " ", "f", "(", "2", ")", ";">>,
    \* { { var a = 1; } print a; a = 2; }
    <<"{", " ", "{", " ", "v", "a", "r", " ", "a", " ", "=", " ", "1", ";", " ", "}", " ",
      "p", "r", "i", "n", "t", " ", "a", ";", " ", "a", " ", "=", " ", "2", ";", " ", "}">>,
    \* { var a = 1; { var a = a; } }
    <<"{", " ", "v", "a", "r", " ", "a", " ", "=", " ", "1", ";", " ", "{", " ", "v", "a",
      "r", " ", "a", " ", "=", " ", "a", ";", " ", "}", " ", "}">>
  }

\* function f() { } function g(a) { }
Prelude ==
  <<"f", "u", "n", "c", "t", "i", "o", "n", " ", "f", "(", ")", " ", "{", " ", "}", " ",
    "f", "u", "n", "c", "t", "i", "o", "n", " ", "g", "(", "a", ")", " ", "{", " ", "}", " ">>

Operands ==
  {NumberLexeme(n) : n \in 0..MaxNumber} \cup
  { <<"t", "r", "u", "e">>, <<"f", "a", "l", "s", "e">>, <<"n", "i", "l">>,
    <<"\"", "a", "\"">>, <<"\"", "b", "\"">>, <<"f">>, <<"g">> }

BinaryOperators ==
  { <<"+">>, <<"-">>, <<"*">>, <<"/">>, <<"=", "=">>, <<"!", "=">>, <<"<">>, <<"<", "=">>,
    <<">">>, <<">", "=">>, <<"a", "n", "d">>, <<"o", "r">> }

KwPrint == <<"p", "r", "i", "n", "t", " ">>

KwVar == <<"v", "a", "r", " ">>

\* the prelude, for the scripts that name f or g
PreludeFor(operands) == IF operands \cap {<<"f">>, <<"g">>} = {} THEN <<>> ELSE Prelude

\* PRELUDE print A op B;
BinaryScripts ==
  {PreludeFor({a, b}) \o KwPrint \o a \o <<" ">> \o op \o <<" ">> \o b \o <<";">> :
     a \in Operands, b \in Operands, op \in BinaryOperators}

\* PRELUDE print !A;   PRELUDE print !!A;   PRELUDE print -A;
UnaryScripts ==
  {PreludeFor({a}) \o KwPrint \o op \o a \o <<";">> :
     a \in Operands, op \in {<<"!">>, <<"!", "!">>, <<"-">>}}

\* x = A;   print x;   var x = A; print x; x = B; print x;   var x = A; var x = B; print x;
GlobalScripts ==
  {<<"x", " ", "=", " ">> \o a \o <<";">> : a \in Operands} \cup
  {KwPrint \o <<"x", ";">>} \cup
  {KwVar \o <<"x", " ", "=", " ">> \o a \o <<";", " ">> \o KwPrint \o <<"x", ";", " ">> \o
     <<"x", " ", "=", " ">> \o b \o <<";", " ">> \o KwPrint \o <<"x", ";">> :
     a \in Operands \ {<<"f">>, <<"g">>}, b \in Operands \ {<<"f">>, <<"g">>}} \cup
  {KwVar \o <<"x", " ", "=", " ">> \o a \o <<";", " ">> \o
     KwVar \o <<"x", " ", "=", " ">> \o b \o <<";", " ">> \o KwPrint \o <<"x", ";">> :
     a \in Operands \ {<<"f">>, <<"g">>}, b \in Operands \ {<<"f">>, <<"g">>}}

\* expressions that are not assignment targets
InvalidTargets ==
  { <<"1">>,
    <<"t", "r", "u", "e">>,
    <<"n", "i", "l">>,
    <<"\"", "a", "\"">>,
    <<"x", " ", "+", " ", "y">>,
    <<"(", "x", ")">>,
    <<"f", "(", ")">>,
    <<"-", "x">>,
    <<"!", "x">>,
    <<"x", " ", "=", "=", " ", "y">>,
    <<"x", " ", "<", " ", "1">>,
    <<"x", " ", "a", "n", "d", " ", "y">>,
    <<"x", " ", "o", "r", " ", "y">>,
    <<"1", " ", "*", " ", "x">>,
    <<"(", "x", " ", "=", " ", "1", ")">> }

\* the statements an assignment is written in: what precedes the target and
\* what follows the assigned value
AssignmentContexts ==
  { [pre |-> <<>>, post |-> <<";">>],
    [pre |-> <<"p", "r", "i", "n", "t", " ">>, post |-> <<";">>],
    [pre |-> <<"v", "a", "r", " ", "z", " ", "=", " ">>, post |-> <<";">>],
    [pre |-> <<"{", " ", "v", "a", "r", " ", "x", ";", " ">>, post |-> <<";", " ", "}">>],
    [pre |-> <<"i", "f", " ", "(">>, post |-> <<")", " ", "{", " ", "}">>],
    [pre |-> <<"x", " ", "=", " ">>, post |-> <<";">>],
    [pre |-> <<"f", "u", "n", "c", "t", "i", "o", "n", " ", "f", "(", "x", ")", " ", "{", " ">>, post |-> <<";", " ", "}">>],
    [pre |-> <<"f", "(">>, post |-> <<")", ";">>] }

\* PRE target = 1 POST
AssignmentTo(target, context) ==
  context.pre \o target \o <<" ", "=", " ", "1">> \o context.post

InvalidAssignmentScripts ==
  {AssignmentTo(t, w) : t \in InvalidTargets, w \in AssignmentContexts}

\* the scripts a comment is added to, line by line
CommentBases ==
  { << <<"p", "r", "i", "n", "t", " ", "1", ";">>, <<"p", "r", "i", "n", "t", " ", "0", ";">> >>,
    << <<>>, <<"p", "r", "i", "n", "t", " ", "1", ";">> >>,
    << <<"v", "a", "r", " ", "x", " ", "=", " ", "1", ";">>, <<"p", "r", "i", "n", "t", " ", "x", " ", "/", " ", "1", ";">> >>,
    << <<"p", "r", "i", "n", "t", " ", "\"", "a", "/", "/", "b", "\"", ";">> >>,
    << <<"i", "f", " ", "(", "t", "r", "u", "e", ")", " ">>, <<"p", "r", "i", "n", "t", " ", "1", ";">> >>,
    << <<>> >> }

\* the comments added
CommentTexts ==
  { <<"/", "/", " ", "c">>, <<"/", "/">>, <<"/", "/", "/">>, <<"/", "/", " ", "p", "r", "i", "n", "t", " ", "0", ";", " ", "\"">>, <<"/", "/", " ", "a", " ", "/", "/", " ", "b">> }

\* the lines joined by newlines
RECURSIVE JoinLines(_)
JoinLines(lines) ==
  IF Len(lines) = 1 THEN lines[1] ELSE lines[1] \o <<"\n">> \o JoinLines(Tail(lines))

\* the script of the lines with the comment at the end of line i
Commented(lines, i, text) == JoinLines([lines EXCEPT ![i] = @ \o text])

CommentedScripts ==
  UNION {{Commented(b, i, t) : i \in 1..Len(b), t \in CommentTexts} : b \in CommentBases}

\* the values that are not Bool, as conditions
NonBoolConditions ==
  { <<"1">>, <<"0">>, <<"n", "i", "l">>, <<"\"", "a", "\"">>, <<"f">> }

\* the constructs that test a condition with JmpFalse or JmpTrue
ConditionScript(kind, cond) ==
  Prelude \o
  CASE kind = "if" -> <<"i", "f", " ", "(">> \o cond \o <<")", " ", "{", " ", "}">>
    [] kind = "while" -> <<"w", "h", "i", "l", "e", " ", "(">> \o cond \o <<")", " ", "{", " ", "}">>
    [] kind = "for" -> <<"f", "o", "r", " ", "(", ";", ";", " ">> \o cond \o <<";", ")", " ", "{", " ", "}">>
    [] kind = "and" -> KwPrint \o cond \o <<" ", "a", "n", "d", " ", "1", ";">>
    [] kind = "or" -> KwPrint \o cond \o <<" ", "o", "r", " ", "1", ";">>

ConditionKinds == {"if", "while", "for", "and", "or"}

ConditionScripts ==
  {ConditionScript(k, v) : k \in ConditionKinds, v \in NonBoolConditions}

\* the values of the nested assignments a = b = V; with the lexeme of each
NestedValues ==
  { [lexeme |-> <<"1">>, value |-> Number(F64(1, 1))],
    [lexeme |-> <<"0">>, value |-> Number(F64(0, 1))],
    [lexeme |-> <<"\"", "s", "\"">>, value |-> ObjString(<<"s">>)] }

\* var a; var b; a = b = V;  at top level (globals) or inside a block (locals)
NestedAssignment(v, local) ==
  (IF local THEN <<"{", " ">> ELSE <<>>) \o
  <<"v", "a", "r", " ", "a", ";", " ", "v", "a", "r", " ", "b", ";", " ",
    "a", " ", "=", " ", "b", " ", "=", " ">> \o
  v.lexeme \o <<";">> \o (IF local THEN <<" ", "}">> ELSE <<>>)

NestedAssignmentScripts ==
  {NestedAssignment(v, local) : v \in NestedValues, local \in BOOLEAN}

Programs ==
  Scenarios \cup BinaryScripts \cup UnaryScripts \cup GlobalScripts \cup InvalidAssignmentScripts
    \cup CommentedScripts \cup ConditionScripts \cup NestedAssignmentScripts

\* the operators binary() compiles
ArithmeticOperators == BinaryOperators \ {<<"a", "n", "d">>, <<"o", "r">>}

\* the expressions A op1 B op2 C over numbers
Ternaries ==
  [a : 0..MaxNumber, op1 : ArithmeticOperators, b : 0..MaxNumber,
   op2 : ArithmeticOperators, c : 0..MaxNumber]

\* print A op1 B op2 C;
TernaryScript(e) ==
  KwPrint \o NumberLexeme(e.a) \o <<" ">> \o e.op1 \o <<" ">> \o NumberLexeme(e.b)
    \o <<" ">> \o e.op2 \o <<" ">> \o NumberLexeme(e.c) \o <<";">>

\* expr of a script that is not drawn from Ternaries
NoExpr == [a |-> 0, op1 |-> <<>>, b |-> 0, op2 |-> <<>>, c |-> 0]

\* the scripts run, each with the expression it was built from
Inputs ==
  {[script |-> s, expr |-> NoExpr] : s \in Programs}
    \cup {[script |-> TernaryScript(e), expr |-> e] : e \in Ternaries}

(***************************************************************************)
(* VM (virtualmachine.rs), constructed by run() of main.rs on the compiled *)
(* chunk.  status is "run" while interpret loops, "ok" once it has         *)
(* returned InterpretOk, "panic" once a panic!/unwrap/expect or an index   *)
(* out of bounds has ended it, and "not_run" when compile did not return.  *)
(* out is what Print has written.                                          *)
(* The other variables record the run for the properties below: marks (the *)
(* code regions the compiler recorded), open and closed (the statements    *)
(* whose code has been entered and not left, and those just left, each     *)
(* with the stack height h and call depth d at entry), calls (the calls    *)
(* that have not returned, with their arguments), stored (the value last   *)
(* stored for each global name by DefineGlobalVar or SetGlobalVar), moved  *)
(* (the value last removed by the PopStoreTmp at each offset), last        *)
(* (the instruction that led to this state, and the VM it ran in) and      *)
(* last2 (the one before it).                                              *)
(***************************************************************************)
VARIABLES script, expr, overflow_checks, compiler, memory, marks,
          ip, stack, globals, ip_stack, sp, temp_val, status, reported, out,
          open, closed, calls, stored, moved, last, last2, phases,
          chunk, issued, chunk_last,
          lexer, tok, tok_before, tok_count

program == <<script, expr, overflow_checks, compiler, memory, marks>>

machine == <<ip, stack, globals, ip_stack, sp, temp_val, status, reported, out>>

history == <<open, closed, calls, stored, moved, last, last2, phases>>

\* a MemorySlice driven by its methods alone, the constant IDs it has handed
\* out, and the last method called on it
pool == <<chunk, issued, chunk_last>>

\* a Scanner driven by scan_token alone: the scanner, the token the last call
\* returned, the scanner and the token before that call, and the number of calls
lexing == <<lexer, tok, tok_before, tok_count>>

vars == <<program, machine, history, pool, lexing>>

Top(s) == s[Len(s)]

Pop1(s) == SubSeq(s, 1, Len(s) - 1)

Pop2(s) == SubSeq(s, 1, Len(s) - 2)

\* HashMap::insert
Insert(map, key, value) == (key :> value) @@ map

\* the statement regions that start at offset at, outermost first
RECURSIVE ByEndDescending(_)
ByEndDescending(regions) ==
  IF regions = {} THEN <<>>
  ELSE LET r == CHOOSE x \in regions : \A y \in regions : y.end <= x.end
       IN  <<r>> \o ByEndDescending(regions \ {r})

\* the innermost open statements that end at offset at, at call depth depth
RECURSIVE ClosedAt(_, _, _)
ClosedAt(o, at, depth) ==
  IF o # <<>> /\ Top(o).end = at /\ Top(o).d = depth
  THEN <<Top(o)>> \o ClosedAt(Pop1(o), at, depth)
  ELSE <<>>

\* the statement of region r, entered with stack height h at call depth d
Entered(r, h, d) ==
  [start |-> r.start, end |-> r.end, kind |-> r.kind, local |-> r.local,
   return_free |-> r.return_free, h |-> h, d |-> d]

\* open after control has arrived at offset at with stack height h at call depth
\* depth: the statements of returned calls are dropped, those that end here are
\* closed, those that start here (and are not open already, as a loop is when
\* control comes back to its start) are opened
OpenAt(o, at, h, depth) ==
  LET kept == SelectSeq(o, LAMBDA e : e.d <= depth)
      rest == SubSeq(kept, 1, Len(kept) - Len(ClosedAt(kept, at, depth)))
      starting == {r \in marks.stmts :
                     /\ r.start = at
                     /\ ~\E i \in 1..Len(rest) :
                          /\ rest[i].start = r.start /\ rest[i].end = r.end
                          /\ rest[i].kind = r.kind /\ rest[i].d = depth}
      entered == ByEndDescending(starting)
  IN  rest \o [i \in 1..Len(entered) |-> Entered(entered[i], h, depth)]

\* the clause of loop l that starts at offset at, "none" when none does
Arrival(l, at) ==
  CASE at = l.body -> "body"
    [] at = l.step -> "step"
    [] at = l.cond /\ l.branch # -1 -> "cond"
    [] at = l.start /\ l.start < l.cond -> "init"
    [] OTHER -> "none"

\* the last clause of loop l entered at call depth depth, "none" before the first
Phase(ps, l, depth) ==
  IF \E p \in ps : p.start = l.start /\ p.d = depth
  THEN (CHOOSE p \in ps : p.start = l.start /\ p.d = depth).now
  ELSE "none"

\* phases after the loops in entering have entered a clause at call depth depth:
\* for each the clause entered (now) and the one entered before it (prev); the
\* loops of returned calls are dropped
Phases(ps, entering, event(_), depth) ==
  {p \in ps : p.d <= depth /\ ~\E l \in entering : p.start = l.start /\ p.d = depth}
    \cup {[start |-> l.start, d |-> depth, prev |-> Phase(ps, l, depth), now |-> event(l)] :
            l \in entering}

\* the MemorySlice before any method has been called on it
NoChunk ==
  /\ chunk = MemorySlice_new
  /\ issued = {}
  /\ chunk_last = [op |-> "none"]

\* the Scanner of an empty source before any call of scan_token
NoScan ==
  /\ lexer = Scanner_new(<<>>)
  /\ tok = Token("Nil", 0, 0, 0)
  /\ tok_before = [sc |-> Scanner_new(<<>>), tok |-> Token("Nil", 0, 0, 0)]
  /\ tok_count = 0

\* last and last2 before any instruction has run
NoInstruction ==
  [op |-> "none", ip |-> 0, operand |-> 0, constant |-> Nil, stack |-> <<>>,
   globals |-> <<>>, sp |-> 0, temp_val |-> Nil]

Init ==
  \E in \in Inputs, oc \in BOOLEAN :
    \E c \in {Compiled(in.script, oc)} :
        /\ script = in.script
        /\ expr = in.expr
        /\ overflow_checks = oc
        /\ compiler = [status |-> c.status, fatal |-> c.fatal,
                       has_error |-> c.has_error, reported |-> c.reported]
        /\ memory = c.memory
        /\ marks = [stmts |-> c.stmts, logicals |-> c.logicals, funcs |-> c.funcs,
                    jumps |-> c.jumps, patched |-> c.patched,
                    loops |-> c.loops, call_sites |-> c.call_sites,
                    callees |-> c.callees, return_sites |-> c.return_sites,
                    targets |-> c.targets, opcodes |-> c.opcodes, idents |-> c.idents,
                    scopes |-> c.scopes, scope_log |-> c.scope_log]
        /\ ip = 0
        /\ stack = <<>>
        /\ globals = <<>>
        /\ ip_stack = <<>>
        /\ sp = 0
        /\ temp_val = Nil
        /\ status = IF c.status = "ok" THEN "run" ELSE "not_run"
        /\ reported = FALSE
        /\ out = <<>>
        /\ \E entered \in {ByEndDescending({r \in c.stmts : r.start = 0})} :
             open = [i \in 1..Len(entered) |-> Entered(entered[i], 0, 0)]
        /\ closed = <<>>
        /\ calls = <<>>
        /\ stored = <<>>
        /\ moved = <<>>
        /\ last = NoInstruction
        /\ last2 = NoInstruction
        /\ phases = Phases({}, {l \in c.loops : Arrival(l, 0) # "none"},
                           LAMBDA l : Arrival(l, 0), 0)
        /\ NoChunk
        /\ NoScan

\* advance_and_read at the opcode: the word read (0 after log_error when ip is
\* out of range, and ip is then not advanced)
FetchedWord == read_at_ip(memory, ip)

OpWord == IF FetchedWord.some THEN FetchedWord.v ELSE 0

Ip1 == IF FetchedWord.some THEN ip + 1 ELSE ip

\* std::mem::transmute(word): the opcode with that discriminant
IsOpCodeWord(w) == w < Len(AllOpCodes)

Decode(w) == AllOpCodes[w + 1]

\* the handler for opcode oc runs next.  The transmute of a word that is no
\* discriminant of OpCode is undefined behaviour: any handler may run.
Fetched(oc) ==
  /\ status = "run"
  /\ IsOpCodeWord(OpWord) => Decode(OpWord) = oc

\* advance_and_read at the operand
OperandWord == read_at_ip(memory, Ip1)

Operand == IF OperandWord.some THEN OperandWord.v ELSE 0

Ip2 == IF OperandWord.some THEN Ip1 + 1 ELSE Ip1

\* get_next_constant: Number(0.0) after log_error when the index is out of range
NextConstant ==
  LET k == get_constant(memory, Operand)
  IN  IF k.some THEN k.v ELSE Number(F64(0, 1))

\* whether log_error has been called by the reads of the opcode (and operand)
ReadReported == ~FetchedWord.some

OperandReported ==
  ~FetchedWord.some \/ ~OperandWord.some \/ ~get_constant(memory, Operand).some

\* the opcode about to run, when the word is one
CurOp == IF status = "run" /\ IsOpCodeWord(OpWord) THEN Decode(OpWord) ELSE "none"

\* what the step of the VM is for loop l: the outcome of its condition when the
\* JmpFalse that ends the condition runs, or the clause at which control arrives
LoopEvent(l) ==
  IF status' # "run" THEN "none"
  ELSE IF ip = l.branch /\ CurOp = "JmpFalse" /\ stack # <<>> /\ IsBool(Top(stack))
  THEN (IF Top(stack).b THEN "true" ELSE "false")
  ELSE Arrival(l, ip')

\* the pending calls after a PopStoreTmp or a Return has run in the body of the
\* innermost one: temp no longer holds what its Call left there
TempWritten(pending) ==
  IF pending = <<>> THEN pending
  ELSE [pending EXCEPT ![Len(pending)].temp_kept = FALSE]

\* the history variables after a step of the VM
Record ==
  /\ open' = IF status' = "run" THEN OpenAt(open, ip', Len(stack'), Len(ip_stack'))
             ELSE open
  /\ closed' = IF status' = "run"
               THEN ClosedAt(SelectSeq(open, LAMBDA e : e.d <= Len(ip_stack')),
                             ip', Len(ip_stack'))
               ELSE <<>>
  /\ calls' = CASE CurOp = "Call" /\ status' = "run" ->
                     Append(calls, [callee |-> temp_val, argc |-> Operand,
                                    at |-> ip, top |-> Len(stack),
                                    args |-> IF Operand <= Len(stack)
                                             THEN SubSeq(stack, Len(stack) - Operand + 1,
                                                         Len(stack))
                                             ELSE stack,
                                    temp_kept |-> TRUE])
                [] CurOp = "Return" /\ status' = "run" -> TempWritten(Pop1(calls))
                [] CurOp = "PopStoreTmp" /\ status' = "run" -> TempWritten(calls)
                [] /\ CurOp = "SetLocalVar" /\ status' = "run" /\ calls # <<>>
                   /\ IsNumber(NextConstant)
                   /\ f64_as_usize(NextConstant.x) < Top(calls).argc ->
                     [calls EXCEPT ![Len(calls)].args[f64_as_usize(NextConstant.x) + 1] =
                                      Top(stack)]
                [] OTHER -> calls
  /\ stored' = CASE CurOp = "DefineGlobalVar" /\ IsString(NextConstant) /\ stack # <<>> ->
                      Insert(stored, NextConstant.s, Top(stack))
                 [] /\ CurOp = "SetGlobalVar" /\ IsString(NextConstant) /\ stack # <<>>
                    /\ NextConstant.s \in DOMAIN stored ->
                      Insert(stored, NextConstant.s, Top(stack))
                 [] OTHER -> stored
  /\ moved' = IF CurOp = "PopStoreTmp" /\ stack # <<>>
              THEN Insert(moved, ip, Top(stack))
              ELSE moved
  /\ last' = [op |-> CurOp, ip |-> ip, operand |-> Operand, constant |-> NextConstant,
              stack |-> stack, globals |-> globals, sp |-> sp, temp_val |-> temp_val]
  /\ last2' = last
  /\ phases' = Phases(phases, {l \in marks.loops : LoopEvent(l) # "none"}, LoopEvent,
                      Len(ip_stack'))

\* the VM after a handler: the fields of u, the others unchanged
Set(u) ==
  /\ ip' = IF "ip" \in DOMAIN u THEN u.ip ELSE ip
  /\ stack' = IF "stack" \in DOMAIN u THEN u.stack ELSE stack
  /\ globals' = IF "globals" \in DOMAIN u THEN u.globals ELSE globals
  /\ ip_stack' = IF "ip_stack" \in DOMAIN u THEN u.ip_stack ELSE ip_stack
  /\ sp' = IF "sp" \in DOMAIN u THEN u.sp ELSE sp
  /\ temp_val' = IF "temp_val" \in DOMAIN u THEN u.temp_val ELSE temp_val
  /\ status' = IF "status" \in DOMAIN u THEN u.status ELSE status
  /\ reported' = IF "reported" \in DOMAIN u THEN u.reported ELSE reported
  /\ out' = IF "out" \in DOMAIN u THEN u.out ELSE out
  /\ Record
  /\ UNCHANGED <<program, pool, lexing>>

\* a panic ends the run; what the handler had changed before it is not observable
RuntimePanic == Set([status |-> "panic"])

OpConstant ==
  /\ Fetched("Constant")
  /\ Set([ip |-> Ip2, stack |-> Append(stack, NextConstant),
          reported |-> reported \/ OperandReported])

OpNegate ==
  /\ Fetched("Negate")
  /\ IF stack # <<>> /\ IsNumber(Top(stack))
     THEN Set([ip |-> Ip1, stack |-> Append(Pop1(stack), Number(f64_neg(Top(stack).x))),
               reported |-> reported \/ ReadReported])
     ELSE RuntimePanic

\* binary_op(op): the fields of the VM it changes
binary_op(op) ==
  IF Len(stack) < 2 THEN [status |-> "panic"]
  ELSE
    LET b == stack[Len(stack)]
        a == stack[Len(stack) - 1]
        rest == Pop2(stack)
    IN  IF a.t # b.t THEN [status |-> "panic"]
        ELSE IF IsNumber(a) /\ IsNumber(b)
        THEN [stack |-> Append(rest,
                CASE op = "+" -> Number(f64_add(a.x, b.x))
                  [] op = "-" -> Number(f64_sub(a.x, b.x))
                  [] op = "*" -> Number(f64_mul(a.x, b.x))
                  [] op = "/" -> Number(f64_div(a.x, b.x)))]
        ELSE IF IsString(a) /\ IsString(b)
        THEN (IF op = "+" THEN [stack |-> Append(rest, ObjString(a.s \o b.s))]
              ELSE [stack |-> rest, reported |-> log_error(reported)])
        ELSE [status |-> "panic"]

\* OpCodes::Add | Subtract | Multiply | Divide => self.binary_op(op)
Arithmetic(op) ==
  \E u \in {binary_op(op)} :
    IF "status" \in DOMAIN u THEN RuntimePanic
    ELSE Set([ip |-> Ip1, stack |-> u.stack,
              reported |-> (IF "reported" \in DOMAIN u THEN u.reported ELSE reported)
                             \/ ReadReported])

OpAdd == Fetched("Add") /\ Arithmetic("+")

OpSubtract == Fetched("Subtract") /\ Arithmetic("-")

OpMultiply == Fetched("Multiply") /\ Arithmetic("*")

OpDivide == Fetched("Divide") /\ Arithmetic("/")

\* OpCodes::Nil | True | False => self.stack.push(v)
Literal(v) ==
  Set([ip |-> Ip1, stack |-> Append(stack, v), reported |-> reported \/ ReadReported])

OpNil == Fetched("Nil") /\ Literal(Nil)

OpTrue == Fetched("True") /\ Literal(Bool(TRUE))

OpFalse == Fetched("False") /\ Literal(Bool(FALSE))

\* a variant of NotValue in which Nil is truthy
NotValue_NilIsTruthy(v) ==
  IF IsBool(v) THEN [ok |-> TRUE, v |-> IF v.b THEN Bool(FALSE) ELSE Bool(TRUE)]
  ELSE IF v.t = "Nil" THEN [ok |-> TRUE, v |-> Bool(FALSE)]
  ELSE [ok |-> FALSE, v |-> Nil]

\* the match of the Not handler: ok and the value pushed, or not ok for the panic
NotValue(v) ==
  IF IsBool(v) THEN [ok |-> TRUE, v |-> IF v.b THEN Bool(FALSE) ELSE Bool(TRUE)]
  ELSE IF v.t = "Nil" THEN [ok |-> TRUE, v |-> Bool(TRUE)]
  ELSE [ok |-> FALSE, v |-> Nil]

OpNot ==
  /\ Fetched("Not")
  /\ IF stack # <<>> /\ NotValue(Top(stack)).ok
     THEN Set([ip |-> Ip1, stack |-> Append(Pop1(stack), NotValue(Top(stack)).v),
               reported |-> reported \/ ReadReported])
     ELSE RuntimePanic

\* Equal, Greater, Less: pop b, pop a, push Bool(cmp(a, b))
Comparison(cmp(_, _)) ==
  IF Len(stack) < 2 THEN RuntimePanic
  ELSE Set([ip |-> Ip1,
            stack |-> Append(Pop2(stack),
                             Bool(cmp(stack[Len(stack) - 1], stack[Len(stack)]))),
            reported |-> reported \/ ReadReported])

OpEqual == Fetched("Equal") /\ Comparison(ValueEq)

OpGreater == Fetched("Greater") /\ Comparison(ValueGt)

OpLess == Fetched("Less") /\ Comparison(ValueLt)

OpPrint ==
  /\ Fetched("Print")
  /\ IF stack = <<>> THEN RuntimePanic
     ELSE Set([ip |-> Ip1, stack |-> Pop1(stack), out |-> Append(out, Top(stack)),
               reported |-> reported \/ ReadReported])

\* self.stack.pop(): no unwrap, so nothing happens on an empty stack
OpPop ==
  /\ Fetched("Pop")
  /\ Set([ip |-> Ip1, stack |-> IF stack = <<>> THEN stack ELSE Pop1(stack),
          reported |-> reported \/ ReadReported])

OpSetSP ==
  /\ Fetched("SetSP")
  /\ Set([ip |-> Ip1, sp |-> Len(stack), reported |-> reported \/ ReadReported])

OpDefineGlobalVar ==
  /\ Fetched("DefineGlobalVar")
  /\ IF IsString(NextConstant) /\ stack # <<>>
     THEN Set([ip |-> Ip2, stack |-> Pop1(stack),
               globals |-> Insert(globals, NextConstant.s, Top(stack)),
               reported |-> reported \/ OperandReported])
     ELSE RuntimePanic

OpGetGlobalVar ==
  /\ Fetched("GetGlobalVar")
  /\ IF IsString(NextConstant) /\ NextConstant.s \in DOMAIN globals
     THEN Set([ip |-> Ip2, stack |-> Append(stack, globals[NextConstant.s]),
               reported |-> reported \/ OperandReported])
     ELSE RuntimePanic

\* a variant of OpSetGlobalVar that binds a name that has no binding
OpSetGlobalVar_Binding ==
  /\ Fetched("SetGlobalVar")
  /\ IF IsString(NextConstant) /\ stack # <<>>
     THEN Set([ip |-> Ip2, globals |-> Insert(globals, NextConstant.s, Top(stack)),
               reported |-> reported \/ OperandReported])
     ELSE RuntimePanic

OpSetGlobalVar ==
  /\ Fetched("SetGlobalVar")
  /\ IF IsString(NextConstant) /\ NextConstant.s \in DOMAIN globals /\ stack # <<>>
     THEN Set([ip |-> Ip2, globals |-> Insert(globals, NextConstant.s, Top(stack)),
               reported |-> reported \/ OperandReported])
     ELSE RuntimePanic

\* self.sp - x as usize, as an index of the stack; -1 when the subtraction
\* underflows: it panics with overflow checks, and wraps to an index far out of
\* bounds without them, where indexing panics
local_location(x) ==
  IF f64_as_usize(x) > sp THEN -1 ELSE sp - f64_as_usize(x)

OpGetLocalVar ==
  /\ Fetched("GetLocalVar")
  /\ IF /\ IsNumber(NextConstant)
        /\ local_location(NextConstant.x) >= 0
        /\ local_location(NextConstant.x) < Len(stack)
     THEN Set([ip |-> Ip2,
               stack |-> Append(stack, stack[local_location(NextConstant.x) + 1]),
               reported |-> reported \/ OperandReported])
     ELSE RuntimePanic

OpSetLocalVar ==
  /\ Fetched("SetLocalVar")
  /\ IF /\ IsNumber(NextConstant)
        /\ local_location(NextConstant.x) >= 0
        /\ local_location(NextConstant.x) < Len(stack)
     THEN Set([ip |-> Ip2,
               stack |-> [stack EXCEPT ![local_location(NextConstant.x) + 1] = Top(stack)],
               reported |-> reported \/ OperandReported])
     ELSE RuntimePanic

\* a variant of ConditionalJump that never takes the jump
ConditionalJump_NeverTaken(taken) ==
  IF stack # <<>> /\ IsBool(Top(stack))
  THEN Set([ip |-> Ip2, reported |-> reported \/ ~FetchedWord.some \/ ~OperandWord.some])
  ELSE RuntimePanic

\* a variant of ConditionalJump for which every value but Bool(false) is true
ConditionalJump_Truthy(taken) ==
  IF stack = <<>> THEN RuntimePanic
  ELSE Set([ip |-> IF (Top(stack) # Bool(FALSE)) = taken THEN Ip2 + Operand ELSE Ip2,
            reported |-> reported \/ ~FetchedWord.some \/ ~OperandWord.some])

\* JmpFalse and JmpTrue: the jump is taken when the top of the stack is Bool(taken)
ConditionalJump(taken) ==
  IF stack # <<>> /\ IsBool(Top(stack))
  THEN Set([ip |-> IF Top(stack).b = taken THEN Ip2 + Operand ELSE Ip2,
            reported |-> reported \/ ~FetchedWord.some \/ ~OperandWord.some])
  ELSE RuntimePanic

OpJmpFalse == Fetched("JmpFalse") /\ ConditionalJump(FALSE)

OpJmpTrue == Fetched("JmpTrue") /\ ConditionalJump(TRUE)

OpJmp ==
  /\ Fetched("Jmp")
  /\ Set([ip |-> Ip2 + Operand,
          reported |-> reported \/ ~FetchedWord.some \/ ~OperandWord.some])

\* self.ip -= steps: an underflow panics with overflow checks and wraps without
\* them to an ip that is out of range (the largest integer of the checker stands
\* for it)
\* a variant of OpLoop that does not jump back
OpLoop_FallThrough ==
  /\ Fetched("Loop")
  /\ Set([ip |-> Ip2, reported |-> reported \/ ~FetchedWord.some \/ ~OperandWord.some])

OpLoop ==
  /\ Fetched("Loop")
  /\ IF Operand <= Ip2
     THEN Set([ip |-> Ip2 - Operand,
               reported |-> reported \/ ~FetchedWord.some \/ ~OperandWord.some])
     ELSE IF overflow_checks THEN RuntimePanic
     ELSE Set([ip |-> 2147483647,
               reported |-> reported \/ ~FetchedWord.some \/ ~OperandWord.some])

OpPopStoreTmp ==
  /\ Fetched("PopStoreTmp")
  /\ IF stack = <<>> THEN RuntimePanic
     ELSE Set([ip |-> Ip1, stack |-> Pop1(stack), temp_val |-> Top(stack),
               reported |-> reported \/ ReadReported])

\* Call that clears temp once it has read the callee from it
OpCall_ClearsTemp ==
  /\ Fetched("Call")
  /\ IF IsFunction(temp_val) /\ temp_val.arity = Operand
     THEN Set([ip |-> temp_val.address, ip_stack |-> Append(ip_stack, Ip2),
               temp_val |-> Nil,
               reported |-> reported \/ ~FetchedWord.some \/ ~OperandWord.some])
     ELSE RuntimePanic

\* Call without the comparison of arity and args_count
OpCall_AnyArity ==
  /\ Fetched("Call")
  /\ IF IsFunction(temp_val)
     THEN Set([ip |-> temp_val.address, ip_stack |-> Append(ip_stack, Ip2),
               reported |-> reported \/ ~FetchedWord.some \/ ~OperandWord.some])
     ELSE RuntimePanic

OpCall ==
  /\ Fetched("Call")
  /\ IF IsFunction(temp_val) /\ temp_val.arity = Operand
     THEN Set([ip |-> temp_val.address, ip_stack |-> Append(ip_stack, Ip2),
               reported |-> reported \/ ~FetchedWord.some \/ ~OperandWord.some])
     ELSE RuntimePanic

\* Return that ends the program when no call is pending
OpReturn_EndsAtTopLevel ==
  /\ Fetched("Return")
  /\ IF Len(ip_stack) > 0
     THEN Set([ip |-> Top(ip_stack), ip_stack |-> Pop1(ip_stack),
               stack |-> Append(stack, temp_val), temp_val |-> Nil,
               sp |-> Len(stack) + 1 - 1,
               reported |-> reported \/ ReadReported])
     ELSE Set([ip |-> Ip1, status |-> "ok", reported |-> reported \/ ReadReported])

OpReturn ==
  /\ Fetched("Return")
  /\ IF Len(ip_stack) > 0
     THEN Set([ip |-> Top(ip_stack), ip_stack |-> Pop1(ip_stack),
               stack |-> Append(stack, temp_val), temp_val |-> Nil,
               sp |-> Len(stack) + 1 - 1,
               reported |-> reported \/ ReadReported])
     ELSE RuntimePanic

OpEof ==
  /\ Fetched("Eof")
  /\ Set([ip |-> Ip1, status |-> "ok", reported |-> reported \/ ReadReported])

\* _ => panic!("OpCode not implemented"): the Panic placeholder
OpNotImplemented ==
  /\ Fetched("Panic")
  /\ RuntimePanic

Next ==
  \/ OpNotImplemented
  \/ OpSetSP
  \/ OpConstant
  \/ OpNegate
  \/ OpAdd
  \/ OpSubtract
  \/ OpMultiply
  \/ OpDivide
  \/ OpNil
  \/ OpTrue
  \/ OpFalse
  \/ OpNot
  \/ OpEqual
  \/ OpGreater
  \/ OpLess
  \/ OpPrint
  \/ OpPop
  \/ OpDefineGlobalVar
  \/ OpGetGlobalVar
  \/ OpSetGlobalVar
  \/ OpGetLocalVar
  \/ OpSetLocalVar
  \/ OpJmpFalse
  \/ OpJmpTrue
  \/ OpJmp
  \/ OpLoop
  \/ OpPopStoreTmp
  \/ OpCall
  \/ OpReturn
  \/ OpEof

Spec == Init /\ [][Next]_vars

(***************************************************************************)
(* MemorySlice on its own: any sequence of its methods, with any opcodes   *)
(* and values, up to MaxWords words of code.  line_end is left out: it      *)
(* writes lines only, which no other method reads.                         *)
(***************************************************************************)

MaxWords == 6

ChunkOpCodes == {"Constant", "DefineGlobalVar"}

ChunkValues ==
  {Number(F64(n, 1)) : n \in 0..MaxNumber}
    \cup {Number(F64NaN), ObjString(<<"a">>)}

ChunkWords == {0}

\* no program is compiled and the VM does not run
NoProgram ==
  /\ script = <<>>
  /\ expr = NoExpr
  /\ overflow_checks = FALSE
  /\ compiler = [status |-> "ok", fatal |-> "none", has_error |-> FALSE, reported |-> FALSE]
  /\ memory = MemorySlice_new
  /\ marks = [stmts |-> {}, logicals |-> {}, funcs |-> {}, jumps |-> {}, patched |-> {},
              loops |-> {}, call_sites |-> {}, callees |-> {}, return_sites |-> {},
              targets |-> {}, opcodes |-> {}, idents |-> {}, scopes |-> {},
              scope_log |-> {}]
  /\ ip = 0
  /\ stack = <<>>
  /\ globals = <<>>
  /\ ip_stack = <<>>
  /\ sp = 0
  /\ temp_val = Nil
  /\ status = "not_run"
  /\ reported = FALSE
  /\ out = <<>>
  /\ open = <<>>
  /\ closed = <<>>
  /\ calls = <<>>
  /\ stored = <<>>
  /\ moved = <<>>
  /\ last = NoInstruction
  /\ last2 = NoInstruction
  /\ phases = {}

ChunkInit == NoProgram /\ NoChunk /\ NoScan

\* the call of a method that takes the chunk to after
Called(method, after) ==
  /\ Len(after.memory) <= MaxWords
  /\ chunk' = after
  /\ chunk_last' = [op |-> method, before |-> chunk]
  /\ UNCHANGED <<program, machine, history, lexing>>

ChunkPushConstant ==
  \E oc \in ChunkOpCodes, v \in ChunkValues :
    /\ Len(chunk.memory) + 2 <= MaxWords
    /\ chunk' = push_constant(chunk, oc, v)
    /\ issued' = issued \cup {[id |-> Top(chunk'.memory), v |-> v]}
    /\ chunk_last' = [op |-> "push_constant", before |-> chunk, oc |-> oc, v |-> v]
    /\ UNCHANGED <<program, machine, history, lexing>>

ChunkPush ==
  \E oc \in ChunkOpCodes : Called("push", push(chunk, oc)) /\ UNCHANGED issued

ChunkPushRaw ==
  \E w \in ChunkWords : Called("push_raw", push_raw(chunk, w)) /\ UNCHANGED issued

\* replace_at_location of the last word written, as patch_address does; an
\* index beyond the code panics
ChunkReplace ==
  \E index \in {Len(chunk.memory) - 1} \ {-1}, w \in ChunkWords :
    Called("replace_at_location", replace_at_location(chunk, index, w)) /\ UNCHANGED issued

ChunkNext ==
  \/ ChunkPushConstant
  \/ ChunkPush
  \/ ChunkPushRaw
  \/ ChunkReplace

ChunkSpec == ChunkInit /\ [][ChunkNext]_vars

(***************************************************************************)
(* The scanner alone: scan_token called again and again on a Scanner of    *)
(* any source of at most MaxSourceLen chars over ScanChars, up to          *)
(* MaxEofCalls calls beyond the Len(source) + 1 that reach the end of any  *)
(* source.  ScanChars has a letter, a digit, the dot, the quote, the       *)
(* slash, the newline, a char that starts a two-char token and a char      *)
(* that no token starts with.                                              *)
(***************************************************************************)

MaxSourceLen == 4

MaxEofCalls == 2

ScanChars == {"a", "1", ".", "\"", "/", "\n", "=", "@"}

\* the sources of at most n chars
RECURSIVE SourcesUpTo(_)
SourcesUpTo(n) ==
  IF n = 0 THEN {<<>>}
  ELSE LET shorter == SourcesUpTo(n - 1)
       IN  shorter \cup {Append(s, ch) : s \in {t \in shorter : Len(t) = n - 1},
                                         ch \in ScanChars}

ScanSources == SourcesUpTo(MaxSourceLen)

ScanInit ==
  /\ NoProgram
  /\ NoChunk
  /\ \E src \in ScanSources :
       /\ lexer = Scanner_new(src)
       /\ tok_before = [sc |-> Scanner_new(src), tok |-> Token("Nil", 0, 0, 0)]
  /\ tok = Token("Nil", 0, 0, 0)
  /\ tok_count = 0

\* one call of scan_token
ScanToken ==
  /\ tok_count < Len(lexer.source) + 1 + MaxEofCalls
  /\ \E r \in {scan_token(lexer)} :
       /\ lexer' = r.sc
       /\ tok' = r.tok
  /\ tok_before' = [sc |-> lexer, tok |-> tok]
  /\ tok_count' = tok_count + 1
  /\ UNCHANGED <<program, machine, history, pool>>

ScanNext == ScanToken

ScanSpec == ScanInit /\ [][ScanNext]_vars

(***************************************************************************)
(* Properties.  A runtime error is a panic of the VM: status = "panic".    *)
(* last.stack[Len(last.stack) - 1] and Top(last.stack) are the operands a  *)
(* and b of the binary instruction that led to the state.                  *)
(***************************************************************************)

\* the script compiled, and neither the scanner nor the compiler reported an error
CompiledWithoutError ==
  compiler.status = "ok" /\ ~compiler.has_error /\ ~compiler.reported

\* the left and the right operand of the last instruction
LastA == last.stack[Len(last.stack) - 1]

LastB == last.stack[Len(last.stack)]

\* the call that control is in is a call of a function declared at top level
InTopLevelCall ==
  /\ calls # <<>>
  /\ IsFunction(Top(calls).callee)
  /\ \E f \in marks.funcs :
       /\ f.top_level
       /\ f.address = Top(calls).callee.address
       /\ f.arity = Top(calls).argc

\* the slot operand of the GetLocalVar or SetLocalVar about to run
Slot == f64_as_usize(NextConstant.x)

(* C1: in a script that compiles without error, the code of a statement    *)
(* (other than the declaration of a local variable, and with no return     *)
(* statement in it) leaves the stack at the height it had when the         *)
(* statement was entered.                                                  *)
C1_StatementRestoresStackHeight ==
  CompiledWithoutError =>
    \A i \in 1..Len(closed) :
      (closed[i].return_free /\ ~(closed[i].kind = "var" /\ closed[i].local))
        => Len(stack) = closed[i].h

\* function add(a,b) { return a + b; } print add(2,5);
AddScript ==
  <<"f", "u", "n", "c", "t", "i", "o", "n", " ", "a", "d", "d", "(", "a", ",", "b", ")",
    " ", "{", " ", "r", "e", "t", "u", "r", "n", " ", "a", " ", "+", " ", "b", ";", " ",
    "}", " ", "p", "r", "i", "n", "t", " ", "a", "d", "d", "(", "2", ",", "5", ")", ";">>

(* C2: inside a call of a top-level function, the read of parameter k      *)
(* yields argument k of that call (or the value last assigned to the       *)
(* parameter); and the script add(2,5) runs to Eof and prints 7.           *)
C2_CallYieldsArgumentsAndResult ==
  /\ ( /\ status = "run"
       /\ CurOp = "GetLocalVar"
       /\ InTopLevelCall
       /\ IsNumber(NextConstant)
       /\ Slot < Top(calls).argc )
     => /\ sp - Slot >= 0
        /\ sp - Slot < Len(stack)
        /\ stack[sp - Slot + 1] = Top(calls).args[Slot + 1]
  /\ (script = AddScript /\ status # "run")
     => (status = "ok" /\ out = <<Number(F64(7, 1))>>)

\* the opcodes whose operand is an index into the constants
ConstantRefOpCodes ==
  {"Constant", "DefineGlobalVar", "GetGlobalVar", "SetGlobalVar", "GetLocalVar",
   "SetLocalVar"}

(* C3: in compiled code, the operand of every instruction that refers to a *)
(* constant is an index of the constants, and the slot of every            *)
(* GetLocalVar and SetLocalVar addresses a value of the stack:             *)
(* 0 <= sp - slot < the stack length.                                      *)
C3_OperandsInRange ==
  status = "run" =>
    /\ CurOp \in ConstantRefOpCodes =>
         (OperandWord.some /\ Operand < Len(memory.constants))
    /\ (CurOp \in {"GetLocalVar", "SetLocalVar"} /\ IsNumber(NextConstant)) =>
         (sp - Slot >= 0 /\ sp - Slot < Len(stack))

(* C4: while control is inside a call of a top-level function, sp marks    *)
(* the top of the arguments of that call: the slot above the last argument *)
(* (or the last argument itself, from which slot k counts down into the    *)
(* arguments).                                                             *)
C4_SpMarksArguments ==
  (status = "run" /\ InTopLevelCall) =>
    sp \in {Top(calls).top - 1, Top(calls).top}

\* the last instruction was the jump of the and/or e, with the left operand on top
\* of the stack deciding the result: Bool(false) for and, Bool(true) for or
ShortCircuited(e) ==
  /\ last.op = e.op
  /\ last.ip = e.at
  /\ last.stack # <<>>
  /\ Top(last.stack) = Bool(e.op = "JmpTrue")

(* C5: when the left operand of and is Bool(false), or of or is            *)
(* Bool(true), control goes from the jump to the end of the code of the    *)
(* right operand, and the stack is left as it was, the left operand on top.*)
C5_ShortCircuit ==
  \A e \in marks.logicals :
    ShortCircuited(e) => (status = "run" /\ ip = e.end /\ stack = last.stack)

C5_Witness ==
  \E e \in marks.logicals :
    /\ ShortCircuited(e)
    /\ e.op = "JmpFalse"
    /\ e.end > e.rhs + 1
    /\ ip = e.end

\* the pairs for which ordering is defined
Ordered(a, b) == (IsNumber(a) /\ IsNumber(b)) \/ (IsString(a) /\ IsString(b))

(* C6: Greater and Less on two operands that are not both Number or both   *)
(* String are a runtime error.                                             *)
C6_OrderingOnlyOfNumbersAndStrings ==
  ( /\ last.op \in {"Greater", "Less"}
    /\ Len(last.stack) >= 2
    /\ ~Ordered(LastA, LastB) )
  => status = "panic"

(* C7: Add, Subtract, Multiply and Divide on two Numbers pop both and push *)
(* one Number; Add on two Strings pushes the left followed by the right;   *)
(* on every other pair the instruction is a runtime error.                 *)
C7_ArithmeticOrError ==
  (last.op \in {"Add", "Subtract", "Multiply", "Divide"} /\ Len(last.stack) >= 2) =>
    IF IsNumber(LastA) /\ IsNumber(LastB)
    THEN /\ status = "run"
         /\ Len(stack) = Len(last.stack) - 1
         /\ Pop1(stack) = Pop2(last.stack)
         /\ IsNumber(Top(stack))
    ELSE IF last.op = "Add" /\ IsString(LastA) /\ IsString(LastB)
    THEN /\ status = "run"
         /\ stack = Append(Pop2(last.stack), ObjString(LastA.s \o LastB.s))
    ELSE status = "panic"

\* a and b have the same variant and equal payload (a NaN is equal to no number)
SameVariantEqualPayload(a, b) ==
  /\ a.t = b.t
  /\ a = b
  /\ ~(IsNumber(a) /\ f64_is_nan(a.x))

(* C8: Equal pops a and b and pushes Bool(true) exactly when a and b have  *)
(* the same variant and equal payload, and is never an error; Equal        *)
(* followed by Not (the code of a != b) pushes the negation.               *)
C8_EqualIsVariantAndPayload ==
  /\ (last.op = "Equal" /\ Len(last.stack) >= 2) =>
       /\ status = "run"
       /\ stack = Append(Pop2(last.stack), Bool(SameVariantEqualPayload(LastA, LastB)))
  /\ (last.op = "Not" /\ last2.op = "Equal" /\ Len(last2.stack) >= 2) =>
       /\ status = "run"
       /\ stack = Append(Pop2(last2.stack),
                         Bool(~SameVariantEqualPayload(last2.stack[Len(last2.stack) - 1],
                                                       Top(last2.stack))))

C8_Witness ==
  /\ last.op = "Not"
  /\ last2.op = "Equal"
  /\ Len(last2.stack) >= 2
  /\ IsFunction(Top(last2.stack))
  /\ IsString(last2.stack[Len(last2.stack) - 1])
  /\ status = "run"
  /\ Top(stack) = Bool(TRUE)

(* C9: Not pushes Bool(false) for Bool(true), Bool(true) for Bool(false)   *)
(* and for Nil, and is a runtime error for every other value; two Nots in  *)
(* a row on a Bool leave the Bool.                                         *)
C9_Not ==
  /\ (last.op = "Not" /\ last.stack # <<>>) =>
       CASE Top(last.stack) \in {Bool(FALSE), Nil} ->
              status = "run" /\ stack = Append(Pop1(last.stack), Bool(TRUE))
         [] Top(last.stack) = Bool(TRUE) ->
              status = "run" /\ stack = Append(Pop1(last.stack), Bool(FALSE))
         [] OTHER -> status = "panic"
  /\ ( /\ last.op = "Not"
       /\ last2.op = "Not"
       /\ last2.stack # <<>>
       /\ IsBool(Top(last2.stack)) )
     => (status = "run" /\ stack = last2.stack)

C9_Witness ==
  /\ last.op = "Not"
  /\ last2.op = "Not"
  /\ last2.stack # <<>>
  /\ IsBool(Top(last2.stack))
  /\ stack = last2.stack

\* the last instruction named a global for which no DefineGlobalVar has run
LastNameUndefined == IsString(last.constant) /\ last.constant.s \notin DOMAIN stored

(* C10: SetGlobalVar of a name for which no DefineGlobalVar has run is a   *)
(* runtime error and leaves the globals as they were; GetGlobalVar of such *)
(* a name is a runtime error; GetGlobalVar of any other name pushes the    *)
(* value last stored for it by DefineGlobalVar or SetGlobalVar.            *)
C10_Globals ==
  /\ (last.op = "SetGlobalVar" /\ LastNameUndefined) =>
       (status = "panic" /\ globals = last.globals)
  /\ (last.op = "GetGlobalVar" /\ LastNameUndefined) => status = "panic"
  /\ (last.op = "GetGlobalVar" /\ IsString(last.constant) /\ ~LastNameUndefined) =>
       /\ status = "run"
       /\ stack = Append(last.stack, stored[last.constant.s])

C10_Witness ==
  /\ last.op = "SetGlobalVar"
  /\ LastNameUndefined
  /\ last.stack # <<>>
  /\ status = "panic"

\* for ( ; ; ) {}
ForEverScript == 
  <<"f", "o", "r", " ", "(", " ", ";", " ", ";", " ", ")", " ", "{", "}">>

\* var i = 0; for (; i < 1; i = i + 1) print i;
EmptyInitializerScript == 
  <<"v", "a", "r", " ", "i", " ", "=", " ", "0", ";", " ", "f", "o", "r", " ", "(", ";",
    " ", "i", " ", "<", " ", "1", ";", " ", "i", " ", "=", " ", "i", " ", "+", " ", "1",
    ")", " ", "p", "r", "i", "n", "t", " ", "i", ";">>

(* C11: a for statement whose initializer clause is empty compiles, and        *)
(* for ( ; ; ) {} compiles to code that runs without ever reaching Eof.        *)
C11_EmptyInitializerCompiles ==
  /\ script \in {ForEverScript, EmptyInitializerScript} => compiler.status = "ok"
  /\ script = ForEverScript => status = "run"

\* var i; for (i = 0; i < 3; i = i + 1) { print i; }
ForScript == 
  <<"v", "a", "r", " ", "i", ";", " ", "f", "o", "r", " ", "(", "i", " ", "=", " ", "0",
    ";", " ", "i", " ", "<", " ", "3", ";", " ", "i", " ", "=", " ", "i", " ", "+", " ",
    "1", ")", " ", "{", " ", "p", "r", "i", "n", "t", " ", "i", ";", " ", "}">>

\* var x = 0; while (x < 3) { print x; x = x + 1; }
WhileScript == 
  <<"v", "a", "r", " ", "x", " ", "=", " ", "0", ";", " ", "w", "h", "i", "l", "e", " ",
    "(", "x", " ", "<", " ", "3", ")", " ", "{", " ", "p", "r", "i", "n", "t", " ", "x",
    ";", " ", "x", " ", "=", " ", "x", " ", "+", " ", "1", ";", " ", "}">>

\* the clauses of loop l after which control may enter clause now
Before(l, now) ==
  LET entry == IF l.start < l.cond THEN {"init"} ELSE {"none", "false"}
      again == IF l.step # -1 THEN {"step"} ELSE {"body"}
  IN  CASE now = "init" -> {"none", "false"}
        [] now = "cond" -> entry \cup again
        [] now \in {"true", "false"} -> {"cond"}
        [] now = "body" -> IF l.branch # -1 THEN {"true"} ELSE entry \cup again
        [] now = "step" -> {"body"}

(* C12: a for loop runs INIT once, then COND; BODY only after COND was true,   *)
(* STEP only after BODY, COND again after STEP (after BODY in a loop without    *)
(* STEP, as in a while loop), and nothing of the loop after COND was false;     *)
(* the for and the while script of the specification print 0, 1, 2.            *)
C12_LoopOrder ==
  /\ \A p \in phases : \A l \in marks.loops :
       l.start = p.start => p.prev \in Before(l, p.now)
  /\ (script \in {ForScript, WhileScript} /\ status # "run")
       => (status = "ok" /\ out = <<Number(F64(0, 1)), Number(F64(1, 1)), Number(F64(2, 1))>>)

C12_Witness ==
  /\ script = ForScript
  /\ \E p \in phases : p.now = "cond" /\ p.prev = "step"
  /\ out = <<Number(F64(0, 1)), Number(F64(1, 1))>>

(* C13: after any sequence of push_constant calls, mixed with the other        *)
(* methods of the chunk, no two entries of the constant pool are equal (by the *)
(* equality push_constant scans with, the derived == of Value).                *)
C13_PoolHasNoEqualEntries ==
  \A i, j \in 1..Len(chunk.constants) :
    i # j => ~ValueEq(chunk.constants[i], chunk.constants[j])

C13_Witness ==
  /\ chunk_last.op = "push_constant"
  /\ chunk_last.before.constants = chunk.constants
  /\ Len(chunk.constants) = 2
  /\ chunk_last.v = chunk.constants[1]

\* s is t with values appended
IsPrefix(s, t) == Len(s) <= Len(t) /\ SubSeq(t, 1, Len(s)) = s

(* C14: push_constant(op, v) appends exactly the word of op and an ID with     *)
(* get_constant(ID) = v, the pool only ever grows at its end, and every ID     *)
(* handed out keeps naming its value after any later method of the chunk.      *)
C14_ConstantIdsAreStable ==
  /\ chunk_last.op = "push_constant" =>
       /\ Len(chunk.memory) = Len(chunk_last.before.memory) + 2
       /\ Pop2(chunk.memory) = chunk_last.before.memory
       /\ chunk.memory[Len(chunk.memory) - 1] = OpCodeRepr(chunk_last.oc)
       /\ get_constant(chunk, Top(chunk.memory)) = [some |-> TRUE, v |-> chunk_last.v]
  /\ chunk_last.op # "none" => IsPrefix(chunk_last.before.constants, chunk.constants)
  /\ \A e \in issued : get_constant(chunk, e.id) = [some |-> TRUE, v |-> e.v]

C14_Witness ==
  /\ chunk_last.op = "replace_at_location"
  /\ Len(chunk.constants) = 2
  /\ \E e \in issued : e.id = 1 /\ e.id \notin {chunk.memory[i] : i \in 1..Len(chunk.memory)}

\* the operand word of the jump j
JumpOperand(j) == memory.memory[j.at + 2]

(* C15 as stated: after compilation, the operand word of every Jmp, JmpFalse,  *)
(* JmpTrue and Loop differs from the encoding of the Panic opcode, whatever    *)
(* the jump distances are.                                                     *)
C15_NoPanicOperand ==
  compiler.status = "ok" =>
    \A j \in marks.jumps : JumpOperand(j) # OpCodeRepr("Panic")

(* C15, amended: after compilation, the operand word of every Jmp, JmpFalse,   *)
(* JmpTrue and Loop has been written with a distance, which leads to an offset *)
(* of the code: no placeholder is left, though a distance may be the number    *)
(* that encodes Panic.                                                         *)
C15_JumpsArePatched ==
  compiler.status = "ok" =>
    \A j \in marks.jumps :
      /\ j.at \in marks.patched
      /\ IF j.op = "Loop" THEN JumpOperand(j) <= j.at + 2
         ELSE j.at + 2 + JumpOperand(j) < Len(memory.memory)

C15_Witness ==
  /\ \E j \in marks.jumps :
       /\ j.op = "JmpFalse" /\ j.at \in marks.patched
       /\ JumpOperand(j) = OpCodeRepr("Panic")
       /\ last.op = "JmpFalse" /\ last.ip = j.at /\ Top(last.stack) = Bool(FALSE)
       /\ ip = j.at + 2 + OpCodeRepr("Panic")
  /\ status = "run"

\* the precedence table of the specification, lowest first
SpecPrecedence(op) ==
  CASE op \in {<<"=", "=">>, <<"!", "=">>} -> 4
    [] op \in {<<"<">>, <<"<", "=">>, <<">">>, <<">", "=">>} -> 5
    [] op \in {<<"+">>, <<"-">>} -> 6
    [] op \in {<<"*">>, <<"/">>} -> 7

\* an item of postfix code: the opcode oc, with the number n when it is Constant
Code(oc) == [oc |-> oc, n |-> 0]

Load(n) == [oc |-> "Constant", n |-> n]

\* the opcodes of a binary operator
OperatorCode(op) ==
  CASE op = <<"+">> -> <<Code("Add")>>
    [] op = <<"-">> -> <<Code("Subtract")>>
    [] op = <<"*">> -> <<Code("Multiply")>>
    [] op = <<"/">> -> <<Code("Divide")>>
    [] op = <<"=", "=">> -> <<Code("Equal")>>
    [] op = <<"!", "=">> -> <<Code("Equal"), Code("Not")>>
    [] op = <<"<">> -> <<Code("Less")>>
    [] op = <<">">> -> <<Code("Greater")>>
    [] op = <<"<", "=">> -> <<Code("Greater"), Code("Not")>>
    [] op = <<">", "=">> -> <<Code("Less"), Code("Not")>>

\* the postfix form of e
Postfix(e) ==
  IF SpecPrecedence(e.op2) <= SpecPrecedence(e.op1)
  THEN <<Load(e.a), Load(e.b)>> \o OperatorCode(e.op1) \o <<Load(e.c)>>
         \o OperatorCode(e.op2)
  ELSE <<Load(e.a), Load(e.b), Load(e.c)>> \o OperatorCode(e.op2) \o OperatorCode(e.op1)

\* the chunk m followed by the code of the postfix form items
RECURSIVE Assembled(_, _)
Assembled(m, items) ==
  IF items = <<>> THEN m
  ELSE Assembled(IF Head(items).oc = "Constant"
                 THEN push_constant(m, "Constant", Number(F64(Head(items).n, 1)))
                 ELSE push(m, Head(items).oc),
                 Tail(items))

\* print 1 + 2 * 3;
PrecedenceScript == 
  <<"p", "r", "i", "n", "t", " ", "1", " ", "+", " ", "2", " ", "*", " ", "3", ";">>

\* print 7 - 2 - 1;
AssociativityScript == 
  <<"p", "r", "i", "n", "t", " ", "7", " ", "-", " ", "2", " ", "-", " ", "1", ";">>

(* C16: print A op1 B op2 C compiles to the postfix code of (A op1 B) op2 C    *)
(* when op2 binds no tighter than op1 and of A op1 (B op2 C) when it binds     *)
(* tighter; 1 + 2 * 3 evaluates to 7 and 7 - 2 - 1 to 4.                       *)
C16_PrecedenceAndAssociativity ==
  /\ expr # NoExpr =>
       /\ compiler = [status |-> "ok", fatal |-> "none", has_error |-> FALSE, reported |-> FALSE]
       /\ [memory |-> memory.memory, constants |-> memory.constants]
            = [memory |-> Assembled(MemorySlice_new,
                                   Postfix(expr) \o <<Code("Print"), Code("Eof")>>).memory,
               constants |-> Assembled(MemorySlice_new, Postfix(expr)).constants]
  /\ (script = PrecedenceScript /\ status # "run") => out = <<Number(F64(7, 1))>>
  /\ (script = AssociativityScript /\ status # "run") => out = <<Number(F64(4, 1))>>

C16_Witness ==
  /\ expr = [a |-> 1, op1 |-> <<"-">>, b |-> 1, op2 |-> <<"*">>, c |-> 0]
  /\ status = "ok"
  /\ out = <<Number(F64(1, 1))>>

\* the words of the chunk that are the opcode named
Emitted(name) == {i \in 1..Len(memory.memory) : memory.memory[i] = OpCodeRepr(name)}

\* the assignments a target holds in itself: (x = 1) is one, compiled before
\* the = that follows the parenthesis is met
AssignmentsIn(target) ==
  IF target = <<"(", "x", " ", "=", " ", "1", ")">> THEN 1 ELSE 0

(* C17: when an expression parsed at Assignment precedence is followed by  *)
(* an = that its left-hand side did not consume, the compilation ends in   *)
(* the fatal invalid-assignment error, the program is never run, and the   *)
(* chunk as the compiler left it holds no SetLocalVar and no SetGlobalVar  *)
(* for that =: the only ones it holds are those of the assignments written *)
(* inside the target.                                                      *)
C17_InvalidAssignmentIsFatal ==
  \A t \in InvalidTargets, w \in AssignmentContexts :
    script = AssignmentTo(t, w) =>
      /\ compiler.status = "panic"
      /\ compiler.fatal = "Invalid assignment"
      /\ status = "not_run"
      /\ Cardinality(Emitted("SetLocalVar") \cup Emitted("SetGlobalVar")) = AssignmentsIn(t)

\* (x) = 1; the target was compiled to a GetGlobalVar before the = was met
C17_Witness ==
  /\ script = AssignmentTo(<<"(", "x", ")">>, [pre |-> <<>>, post |-> <<";">>])
  /\ compiler.status = "panic"
  /\ compiler.fatal = "Invalid assignment"
  /\ Emitted("GetGlobalVar") = {1}
  /\ Len(memory.memory) = 2

\* the addresses of the functions the program declares
FunctionAddresses == {f.address : f \in marks.funcs}

\* temp_val is a Function whose arity is the operand of the Call about to run
Callable == IsFunction(temp_val) /\ temp_val.arity = Operand

(* C18: a Call whose temp_val is not a Function, or is a Function whose    *)
(* arity differs from the operand, ends the run with a panic; ip_stack is  *)
(* left as it was and ip is not the address of a function.                 *)
C18_CallErrors ==
  [][(CurOp = "Call" /\ ~Callable) =>
       /\ status' = "panic"
       /\ ip_stack' = ip_stack
       /\ ip' \notin FunctionAddresses
       /\ IsFunction(temp_val) => ip' # temp_val.address]_vars

\* a function of one parameter called with none
C18_Witness ==
  /\ last.op = "Call"
  /\ IsFunction(last.temp_val)
  /\ last.temp_val.arity = 1
  /\ last.operand = 0
  /\ status = "panic"
  /\ ip_stack = <<>>

(* C19: a Return with a pending call sets ip to the offset after the       *)
(* operand of the latest Call that has not returned and pops one entry of  *)
(* ip_stack, which holds one entry for each such Call; a Return with no    *)
(* pending call ends the run with a panic.                                 *)
C19_ReturnsNestLIFO ==
  [][/\ Len(ip_stack) = Len(calls)
     /\ CurOp = "Return" =>
          IF ip_stack # <<>>
          THEN /\ status' = "run"
               /\ ip' = Top(calls).at + 2
               /\ ip_stack' = Pop1(ip_stack)
               /\ calls' = Pop1(calls)
          ELSE status' = "panic"]_vars

\* the return of a call made inside another call: the outer call, made from
\* the code after the function bodies, is still pending
C19_Witness ==
  /\ last.op = "Return"
  /\ status = "run"
  /\ Len(calls) = 1
  /\ ip_stack = <<Top(calls).at + 2>>
  /\ ip < Top(calls).at

\* the script compiled, and holds no while, no for and no call
StraightLine ==
  /\ compiler.status = "ok"
  /\ marks.loops = {}
  /\ marks.call_sites = {}

\* the VM has stopped: interpret returned InterpretOk, or a panic ended it
Stopped == status \in {"ok", "panic"}

\* interpret is scheduled until it returns
FairSpec == Spec /\ WF_vars(Next)

(* C20: the chunk compile returns ends with Eof; and the run of a script   *)
(* without while, for and call is finite: every instruction that does not  *)
(* panic moves ip forward, every jump is forward, ip stays within the      *)
(* chunk, the run stops, and it stops with InterpretOk only at Eof.        *)
C20_StraightLineProgramsStop ==
  /\ [](compiler.status = "ok" =>
          /\ memory.memory # <<>>
          /\ Top(memory.memory) = OpCodeRepr("Eof"))
  /\ [](StraightLine =>
          /\ \A j \in marks.jumps : j.op \in {"Jmp", "JmpFalse", "JmpTrue"}
          /\ IF status = "run" THEN ip < Len(memory.memory) ELSE ip <= Len(memory.memory))
  /\ [][(StraightLine /\ status = "run") =>
          /\ status' \in {"run", "ok", "panic"}
          /\ status' # "panic" => ip' > ip
          /\ status' = "ok" => CurOp = "Eof"]_vars
  /\ (StraightLine => <>Stopped)

\* the jump over the body of if (false) { ... } was taken, and the run ended at Eof
C20_Witness ==
  /\ StraightLine
  /\ \E j \in marks.jumps : j.op = "JmpFalse"
  /\ last.op = "Eof"
  /\ last2.op = "Pop"
  /\ status = "ok"
  /\ ip = Len(memory.memory)
  /\ out = <<>>

\* the offset in JoinLines(lines) of the end of line i
RECURSIVE LineEnd(_, _)
LineEnd(lines, i) ==
  IF i = 1 THEN Len(lines[1]) ELSE Len(lines[1]) + 1 + LineEnd(Tail(lines), i - 1)

\* scan_token called with the scanner at offset k of the script
ScanAt(k) == scan_token([Scanner_new(script) EXCEPT !.current = k])

(* C21: a line comment is ignored.  At its // the scanner returns one      *)
(* WhiteSpace token that covers the comment and stops before the newline   *)
(* (or at the end of the source), the token after it is the NewLine (or    *)
(* Eof), and the script compiles to the chunk, and with the report of      *)
(* errors, of the script without the comment.                              *)
C21_CommentIsIgnored ==
  \A b \in CommentBases, t \in CommentTexts :
    \A i \in 1..Len(b) :
      script = Commented(b, i, t) =>
        /\ \E r \in {ScanAt(LineEnd(b, i))} :
             /\ r.tok = Token("WhiteSpace", LineEnd(b, i), Len(t), 0)
             /\ r.sc.current = LineEnd(b, i) + Len(t)
             /\ \E n \in {scan_token(r.sc)} :
                  IF i < Len(b)
                  THEN n.tok = Token("NewLine", r.sc.current, 1, 1)
                  ELSE n.tok = Token("Eof", r.sc.current, 0, 0)
        /\ \E c \in {Compiled(JoinLines(b), overflow_checks)} :
             /\ memory = c.memory
             /\ compiler = [status |-> c.status, fatal |-> c.fatal,
                            has_error |-> c.has_error, reported |-> c.reported]

\* print 1; // print 0; "   followed by the line   print 0;
C21_Witness ==
  /\ script = Commented(<< <<"p", "r", "i", "n", "t", " ", "1", ";">>,
                           <<"p", "r", "i", "n", "t", " ", "0", ";">> >>, 1,
                        <<"/", "/", " ", "p", "r", "i", "n", "t", " ", "0", ";", " ", "\"">>)
  /\ status = "ok"
  /\ memory.lines = <<1>>
  /\ out = <<Number(F64(1, 1)), Number(F64(0, 1))>>

(* C22: for every function declared, at top level or nested, the address   *)
(* in the emitted Function constant is the offset of the first word of the *)
(* function's body, the word after the operand of the Jmp over the body.   *)
C22_FunctionAddressIsBody ==
  \A f \in marks.funcs : f.address = f.body

(* C23: whenever a Call has executed, temp_val held the value that the     *)
(* PopStoreTmp of the same call expression removed from the stack,         *)
(* whatever its arguments are, calls included.                             *)
C23_TempCarriesCallee ==
  \A p \in marks.callees :
    (last.op = "Call" /\ last.ip = p.call) =>
      /\ p.pop \in DOMAIN moved
      /\ last.temp_val = moved[p.pop]

\* the words of the chunk from offset from up to, not including, offset to
Words(from, to) == SubSeq(memory.memory, from + 1, to)

\* n Pop words
Pops(n) == [i \in 1..n |-> OpCodeRepr("Pop")]

(* C24: for return EXPR; inside a function, the words between PopStoreTmp  *)
(* and Return are one Pop for each local of the function's frame (its      *)
(* parameters and the locals declared so far in its body) and nothing      *)
(* else, for functions nested in a block or in a function as well.         *)
C24_ReturnPopsTheFrame ==
  \A r \in marks.return_sites :
    (r.value /\ r.in_function) =>
      /\ memory.memory[r.first] = OpCodeRepr("PopStoreTmp")
      /\ memory.memory[r.ret + 1] = OpCodeRepr("Return")
      /\ Words(r.first, r.ret) = Pops(r.frame)

(* C25 as stated: return; compiles to exactly one word, the Return opcode, *)
(* whatever locals are in scope.                                           *)
C25_ReturnIsOneWord ==
  \A r \in marks.return_sites :
    ~r.value => /\ r.ret = r.start
                /\ memory.memory[r.ret + 1] = OpCodeRepr("Return")

(* C25: return; compiles to Pops followed by the Return opcode and to no   *)
(* PopStoreTmp: one Pop for each local in scope when none of them is       *)
(* declared in an enclosing scope, and so the single word Return only when *)
(* no local is in scope.                                                   *)
C25_ReturnIsPopsThenReturn ==
  \A r \in marks.return_sites :
    ~r.value =>
      /\ r.first = r.start
      /\ memory.memory[r.ret + 1] = OpCodeRepr("Return")
      /\ \E n \in 0..r.locals : Words(r.start, r.ret) = Pops(n)
      /\ r.shallow = 0 => Words(r.start, r.ret) = Pops(r.locals)

\* function f(a) { return; }: a Pop for the parameter, then Return
C25_Witness ==
  \E r \in marks.return_sites :
    /\ ~r.value
    /\ r.in_function
    /\ r.locals = 1
    /\ Words(r.start, r.ret + 1) = <<OpCodeRepr("Pop"), OpCodeRepr("Return")>>
    /\ last.op = "Return"
    /\ last.ip = r.ret
    /\ status = "run"

\* the last instruction was a jump that was taken
LastJumpTaken ==
  /\ status = "run"
  /\ \/ last.op \in {"Jmp", "Loop"}
     \/ last.op = "JmpFalse" /\ last.stack # <<>> /\ Top(last.stack) = Bool(FALSE)
     \/ last.op = "JmpTrue" /\ last.stack # <<>> /\ Top(last.stack) = Bool(TRUE)

(* C26: a jump that is taken lands exactly where the compiler meant it to: *)
(* a forward jump at the chunk size of the time patch_address was called   *)
(* for it, a Loop at the loop_start given to push_loop.  Every jump of a   *)
(* compiled chunk has one such target.                                     *)
C26_JumpTargetsAreExact ==
  /\ compiler.status = "ok" =>
       \A j \in marks.jumps : Cardinality({t \in marks.targets : t.at = j.at}) = 1
  /\ \A t \in marks.targets :
       (LastJumpTaken /\ last.ip = t.at) => ip = t.target

\* a Loop back to the condition, after a JmpFalse that was not taken
C26_Witness ==
  /\ LastJumpTaken
  /\ last.op = "Loop"
  /\ \E t \in marks.targets : t.at = last.ip /\ ip = t.target /\ t.target < t.at
  /\ \E t \in marks.targets : t.at < last.ip /\ t.target = last.ip + 2

\* the opcodes that are followed by one operand word
OperandOpCodes ==
  {"Constant", "DefineGlobalVar", "GetGlobalVar", "SetGlobalVar", "GetLocalVar",
   "SetLocalVar", "Jmp", "JmpFalse", "JmpTrue", "Loop", "Call"}

\* the offset at which the linear decoding of the code from offset at ends: the
\* offset of the first Eof it meets, -1 when it meets a word that is no opcode
\* or runs past the end of the code
RECURSIVE DecodeEnd(_, _)
DecodeEnd(code, at) ==
  IF at >= Len(code) THEN -1
  ELSE IF ~IsOpCodeWord(code[at + 1]) THEN -1
  ELSE IF Decode(code[at + 1]) = "Eof" THEN at
  ELSE IF Decode(code[at + 1]) \in OperandOpCodes THEN DecodeEnd(code, at + 2)
  ELSE DecodeEnd(code, at + 1)

\* the offsets at which the linear decoding of the code from offset at finds an opcode
RECURSIVE DecodedAt(_, _)
DecodedAt(code, at) ==
  IF at >= Len(code) \/ ~IsOpCodeWord(code[at + 1]) THEN {}
  ELSE IF Decode(code[at + 1]) \in OperandOpCodes THEN {at} \cup DecodedAt(code, at + 2)
  ELSE {at} \cup DecodedAt(code, at + 1)

(* C27: the code of every compiled chunk decodes linearly from offset 0,   *)
(* one operand word after each operand-carrying opcode and none after the  *)
(* others, and the decoding ends exactly on the final Eof; the words it    *)
(* takes as opcodes are the words the compiler emitted as opcodes.         *)
C27_CodeDecodesLinearly ==
  compiler.status = "ok" =>
    /\ DecodeEnd(memory.memory, 0) = Len(memory.memory) - 1
    /\ DecodedAt(memory.memory, 0) = marks.opcodes
    /\ \A j \in marks.jumps : Decode(memory.memory[j.at + 1]) = j.op
    /\ \A k \in marks.call_sites : Decode(memory.memory[k + 1]) = "Call"

\* a chunk with a function, calls, a loop and both kinds of jumps, whose
\* decoding has ended on its Eof
C27_Witness ==
  /\ compiler.status = "ok"
  /\ marks.call_sites # {}
  /\ \E j \in marks.jumps : j.op = "Loop"
  /\ \E j \in marks.jumps : j.op = "JmpFalse"
  /\ \E j \in marks.jumps : j.op = "Jmp"
  /\ DecodeEnd(memory.memory, 0) = Len(memory.memory) - 1
  /\ Cardinality(DecodedAt(memory.memory, 0)) < Len(memory.memory)
  /\ status = "run"

\* the index in locals of the last local with the lexeme name, -1 when there is none
RECURSIVE Resolve(_, _)
Resolve(locals, name) ==
  IF locals = <<>> THEN -1
  ELSE IF locals[Len(locals)] = name THEN Len(locals) - 1
  ELSE Resolve(SubSeq(locals, 1, Len(locals) - 1), name)

\* the constant that the operand of the instruction at offset at refers to
ConstantAt(at) == memory.constants[memory.memory[at + 2] + 1]

(* C28: an identifier is compiled to Get/SetLocalVar of the index in       *)
(* locals of the last declared local with its lexeme (the operand refers   *)
(* to the constant Number(index)), and to Get/SetGlobalVar of its name     *)
(* only when no local has its lexeme.                                      *)
C28_IdentifierResolution ==
  \A i \in marks.idents :
    i.at + 2 <= Len(memory.memory) =>
      IF Resolve(i.locals, i.name) < 0
      THEN /\ Decode(memory.memory[i.at + 1]) =
                (IF i.assigned THEN "SetGlobalVar" ELSE "GetGlobalVar")
           /\ ConstantAt(i.at) = ObjString(i.name)
      ELSE /\ Decode(memory.memory[i.at + 1]) =
                (IF i.assigned THEN "SetLocalVar" ELSE "GetLocalVar")
           /\ ConstantAt(i.at) = Number(F64(Resolve(i.locals, i.name), 1))

\* the read of a in { var a = 1; { var a = 2; print a; } ... }: the inner a, slot 1
C28_Witness ==
  \E i \in marks.idents :
    /\ i.locals = << <<"a">>, <<"a">> >>
    /\ i.name = <<"a">>
    /\ last.op = "GetLocalVar"
    /\ last.ip = i.at
    /\ last.constant = Number(F64(1, 1))

(* C29: in the run of a compiled script sp is changed by Return alone: a   *)
(* Call that does not panic changes ip and ip_stack and leaves sp, the     *)
(* stack, temp_val and globals as they were; no word the compiler emits as *)
(* an opcode is SetSP; and sp is 0 when the run starts.                    *)
C29_OnlyReturnSetsSp ==
  /\ [](\A at \in marks.opcodes : Decode(memory.memory[at + 1]) # "SetSP")
  /\ [](last = NoInstruction /\ status = "run" => sp = 0)
  /\ [][sp' # sp => CurOp = "Return"]_vars
  /\ [][(CurOp = "Call" /\ status' = "run") =>
          /\ UNCHANGED <<sp, stack, temp_val, globals>>
          /\ ip' # ip
          /\ ip_stack' # ip_stack]_vars

(* C30: JmpFalse and JmpTrue end the run with a panic when the top of the  *)
(* stack is not a Bool (or the stack is empty), and otherwise change ip    *)
(* alone, to the offset after the operand or that offset plus the operand: *)
(* the stack keeps its top.  So if, while, for, and, or with a Number,     *)
(* Nil, String or Function condition stop the VM at their jump.            *)
C30_ConditionalJumpsNeedBool ==
  /\ [][(CurOp \in {"JmpFalse", "JmpTrue"}) =>
          (IF stack # <<>> /\ Top(stack).t = "Bool"
           THEN /\ status' = "run"
                /\ ip' \in {Ip2, Ip2 + Operand}
                /\ UNCHANGED <<stack, sp, temp_val, globals, ip_stack, out>>
           ELSE status' = "panic")]_vars
  /\ [](\A k \in ConditionKinds, v \in NonBoolConditions :
          (script = ConditionScript(k, v) /\ status # "run") =>
            /\ status = "panic"
            /\ last.op = (IF k = "or" THEN "JmpTrue" ELSE "JmpFalse")
            /\ last.stack # <<>>
            /\ Top(last.stack).t # "Bool"
            /\ out = <<>>)

\* while (f) { } has stopped at its JmpFalse with the function f on the stack
C30_Witness ==
  /\ script = ConditionScript("while", <<"f">>)
  /\ status = "panic"
  /\ last.op = "JmpFalse"
  /\ last.stack # <<>>
  /\ IsFunction(Top(last.stack))

\* the identifiers the compiler has compiled as assignment targets
Assigned(name) == {i \in marks.idents : i.assigned /\ i.name = name}

ScopeWellFormed(s) ==
  /\ \A i \in 1..Len(s.depths) : s.depths[i] >= 1 /\ s.depths[i] <= s.scope_depth
  /\ \A i \in 1..(Len(s.depths) - 1) : s.depths[i] <= s.depths[i + 1]

\* the var and function declarations compiled directly in the block b
DeclaredIn(b) ==
  {d \in marks.scopes : /\ d.kind \in {"var", "function"}
                        /\ d.depth_before = b.depth_before + 1
                        /\ b.start <= d.start /\ d.end <= b.end}

\* the end_scope calls that close the block b
ClosingOf(b) ==
  {e \in marks.scope_log : /\ e.op = "end_scope"
                           /\ e.scope_depth = b.depth_before
                           /\ e.at + e.pops = b.end}

(* C32: compile-time scope bookkeeping is balanced.  After every           *)
(* begin_scope, local_var and end_scope each local has a depth between 1   *)
(* and scope_depth and the depths do not decrease along locals; every      *)
(* declaration or statement leaves scope_depth as it found it, and the     *)
(* length of locals as well, except that a var or a function declared      *)
(* inside a block or function adds one local; the end_scope of a block     *)
(* emits exactly one Pop for each var or function declared in it.          *)
C32_ScopeBookkeepingBalanced ==
  /\ \A s \in marks.scope_log : ScopeWellFormed(s)
  /\ \A r \in marks.scopes :
       /\ r.depth_after = r.depth_before
       /\ r.locals_after =
            r.locals_before +
              (IF r.kind \in {"var", "function"} /\ r.depth_before > 0 THEN 1 ELSE 0)
  /\ \A b \in marks.scopes :
       b.kind = "block" =>
         /\ ClosingOf(b) # {}
         /\ \A e \in ClosingOf(b) : e.pops = Cardinality(DeclaredIn(b))

(* C33: successive scan_token calls tile the source.  The token a call     *)
(* returns starts where the token of the call before ended (the first at   *)
(* 0) and ends inside the source; every token other than Eof has at least  *)
(* one char, so more than Len(source) calls have returned Eof; a call made *)
(* after Eof was returned returns an Eof token of length 0 at the end of   *)
(* the source and leaves the scanner as it was.                            *)
C33_TokensTileSource ==
  tok_count > 0 =>
    /\ tok.start = tok_before.tok.start + tok_before.tok.length
    /\ tok_count = 1 => tok.start = 0
    /\ tok.start + tok.length <= Len(lexer.source)
    /\ tok.tokentype # "Eof" => tok.length >= 1
    /\ tok_count > Len(lexer.source) => tok.tokentype = "Eof"
    /\ tok_before.tok.tokentype = "Eof" =>
         /\ tok.tokentype = "Eof"
         /\ tok.length = 0
         /\ tok.start = Len(lexer.source)
         /\ lexer = tok_before.sc

\* a = 1 has been scanned to its end and scan_token called once more
C33_Witness ==
  /\ lexer.source = <<"a", "=", "1">>
  /\ tok_count = 5
  /\ tok_before.tok = Token("Eof", 3, 0, 0)
  /\ tok = Token("Eof", 3, 0, 0)

(* C34: Call does not clear temp, so a call whose body runs neither a      *)
(* PopStoreTmp nor a Return of a nested call pushes, at its Return, the    *)
(* Function value of the callee itself as the result of the call, not      *)
(* Nil; temp is Nil after every Return.                                    *)
C34_CallResultIsCalleeWhenTempKept ==
  [][/\ (CurOp = "Call" /\ status' = "run") => temp_val' = temp_val
     /\ (CurOp = "Return" /\ status' = "run") =>
          /\ temp_val' = Nil
          /\ stack' = Append(stack, temp_val)
          /\ calls # <<>>
          /\ Top(calls).temp_kept =>
               /\ Top(stack') = Top(calls).callee
               /\ IsFunction(Top(stack'))
               /\ Top(stack') # Nil]_vars

\* a call has returned the Function value of its callee, and temp is Nil
C34_Witness ==
  /\ status = "run"
  /\ last.op = "Return"
  /\ last2.op = "Call"
  /\ IsFunction(last2.temp_val)
  /\ stack # <<>>
  /\ Top(stack) = last2.temp_val
  /\ temp_val = Nil

(* C35: for every chunk produced by compile, at every instruction fetch    *)
(* of the run ip is the offset of a word that the compiler emitted as an   *)
(* opcode: it is never past the end of the code and never on an operand    *)
(* word, whatever jumps, loops, calls and returns have run.                *)
C35_IpOnOpcode ==
  (compiler.status = "ok" /\ status = "run") =>
    /\ ip < Len(memory.memory)
    /\ ip \in marks.opcodes

====
